---- MODULE Spec2Model ----
(***************************************************************************)
(* Verification model of the vibecharting analysis pipeline.               *)
(*                                                                         *)
(*   Spec         the orchestrators: lambda_handler of the Lambda function *)
(*                and run_analysis of the EC2 runner                       *)
(*   SpecScan     detect_signals_sliding_window on a bar series            *)
(*   SpecAnalyze  the analysis of one asset, run and run again: the trend  *)
(*                classifiers, the signal detectors, the confidence model, *)
(*                the two tables they fill and the query processor's reads *)
(*                of these tables                                          *)
(*   SpecQuery    lambda_handler of the query processor on one request     *)
(*                                                                         *)
(* In Spec and SpecScan time is counted in half days from a Monday 00:00   *)
(* UTC, so that bars can carry two times of day (00:00 and 12:00); in      *)
(* SpecAnalyze it is counted in hours.                                     *)
(***************************************************************************)
EXTENDS Integers, Sequences, FiniteSets, TLC

VARIABLES
    \* ---- the orchestrators (handler.py lambda_handler, run_trend_analysis.py run_analysis)
    orch,             \* which entry point runs: "lambda" or "ec2"
    analysis_mode,    \* ANALYSIS_MODE of the EC2 runner ("legacy", "advanced"); "none" for Lambda
    pc,               \* position of the entry point
    conn,             \* state of the pg8000 connection: "none", "open", "aborted", "closed"
    run_id,           \* local run_id (0 stands for None and for the 0 returned on failure)
    analysis_runs,    \* the row of analysis_runs created by this run, or NoRun
    active_cryptos,   \* number of rows get_active_cryptocurrencies returns (ids 1..n, by rank)
    idx,              \* index of the asset of the for loop
    tfi,              \* index of the timeframe of the inner loop
    price_data,       \* the bars read for the current asset (NoData outside an asset)
    signals,          \* signals still to be stored for the current asset
    processed_count,  \* local processed_count / processed
    total_trends_stored,     \* local total_trends_stored / total_trends
    total_signals_detected,  \* local total_signals_detected / total_signals
    asset_writes,     \* rows committed for the current asset by this run, in commit order
    raised,           \* history: a step of some asset raised an exception
    cancelled,        \* a cancellation signal has arrived
    statusCode,       \* statusCode of the Lambda response / exit code of the runner (-1 = none)
    \* ---- detect_signals_sliding_window applied to one bar series
    price_shape,      \* the course of the closes of the series
    first_day,        \* day of the first bar, counted from a Monday
    scan_input,       \* price_data: the bars, oldest first
    spikes,           \* number of bars of scan_input with a volume spike
    scan_pool,        \* its candidate pool (signals, line 241)
    scan_unique,      \* its list unique_signals (line 253)
    scan_output,      \* the list detect_signals_sliding_window returned
    scan_done,        \* the function has been applied
    \* ---- the analysis of one asset, run and run again
    an_input,         \* the analysis path, the bars of the asset and what the libraries return
    an_now,           \* datetime.now(timezone.utc), in hours
    an_trends,        \* the trend results of the last analysis, in the order of the timeframes
    an_signals,       \* the signals the detectors returned in the last analysis
    trend_analysis,   \* table trend_analysis: its rows
    signal_events,    \* table signal_events: its rows, in insertion order
    an_runs,          \* analyses of the asset completed
    an_first,         \* the two tables as they were after the first analysis
    trend_created,    \* column created_at of trend_analysis, by the key of the row
    query_result,     \* the last query made on the two tables, and the rows it returned
    \* ---- the query processor on one request
    q_event,          \* the request event and what the collaborators do on it
    q_pc,             \* position in lambda_handler
    q_db_client,      \* the local db_client: "unbound", "open" or "closed"
    q_response        \* the responses returned, by error code ("OK" for a 200)

orchVars == <<orch, analysis_mode, pc, conn, run_id, analysis_runs, active_cryptos,
              idx, tfi, price_data, signals, processed_count, total_trends_stored,
              total_signals_detected, asset_writes, raised, cancelled, statusCode>>

scanVars == <<price_shape, first_day, scan_input, spikes, scan_pool, scan_unique,
              scan_output, scan_done>>

anVars == <<an_input, an_now, an_trends, an_signals, trend_analysis, signal_events, an_runs, an_first, trend_created, query_result>>

qryVars == <<q_event, q_pc, q_db_client, q_response>>

vars == <<orchVars, scanVars, anVars, qryVars>>

\* what the steps of one part of the model leave alone
orchFrame == <<scanVars, anVars, qryVars>>
scanFrame == <<orchVars, anVars, qryVars>>
anFrame == <<orchVars, scanVars, qryVars>>
qryFrame == <<orchVars, scanVars, anVars>>

----------------------------------------------------------------------------
\* Bounds

MaxAssets == 2        \* rows of cryptocurrencies with is_active = true
MaxSignals == 2       \* Lambda detectors that fire for one asset in one run
MaxBars == 16         \* bars of a scanned series
MaxSpikes == 3        \* bars of a scanned series with a volume spike
MaxFirstDay == 1      \* the first bar of a scanned series is a Monday or a Tuesday
IndLen == 4           \* bars of the tail of an indicator series that may hold a crossing

\* Program constants
MinBars == 14         \* handler.py:71, run_trend_analysis.py:709

Timeframes == <<"7d", "14d", "30d">>

LambdaSignalTypes ==
    <<"pump_and_dump", "bottomed_out", "volume_anomaly", "parabolic_rise",
      "capitulation_drop">>

\* time of the run, in half days: datetime.now(timezone.utc)
Now == 60

NoRun == [status |-> "none", run_type |-> "none", records_processed |-> 0,
          error_message |-> "none", status_writes |-> 0]

NoData == [len |-> 0, fired |-> {}, bars |-> <<>>, family |-> "none", series |-> <<>>]

----------------------------------------------------------------------------
\* Helpers

Range(s) == {s[i] : i \in 1..Len(s)}

Min(a, b) == IF a < b THEN a ELSE b

\* the subsequence of s whose elements are in S
RECURSIVE Restrict(_, _)
Restrict(s, S) ==
    IF s = <<>> THEN <<>>
    ELSE IF Head(s) \in S THEN <<Head(s)>> \o Restrict(Tail(s), S)
         ELSE Restrict(Tail(s), S)

----------------------------------------------------------------------------
\* The database connection (pg8000, autocommit off).  A statement either
\* succeeds or fails; a failed statement leaves the transaction aborted and
\* every later statement fails until rollback() is called.

StatementOutcomes(c) == IF c = "aborted" THEN {FALSE} ELSE BOOLEAN

\* DatabaseClient.log_analysis_run: INSERT ... RETURNING id, commit; on any
\* exception rollback and return 0.
LogAnalysisRunRow(run_type, status) ==
    [status |-> status, run_type |-> run_type, records_processed |-> 0,
     error_message |-> "none", status_writes |-> 0]

\* DatabaseClient.update_analysis_run, the committed UPDATE: status is set,
\* records_processed and error_message are COALESCEd.
UpdateAnalysisRunRow(row, status, count, error_message) ==
    [row EXCEPT !.status = status,
                !.records_processed = IF count = -1 THEN @ ELSE count,
                !.error_message = IF error_message = "none" THEN @ ELSE error_message,
                !.status_writes = @ + 1]


\* A row as it is committed to trend_analysis (key = timeframe) or to
\* signal_events (key = signal_type).
TrendRow(crypto_id, timeframe) ==
    [kind |-> "trend", crypto_id |-> crypto_id, key |-> timeframe, detected_at |-> 0]

SignalRow(signal) ==
    [kind |-> "signal", crypto_id |-> signal.crypto_id, key |-> signal.signal_type,
     detected_at |-> signal.detected_at]

----------------------------------------------------------------------------
\* Time, in half days since a Monday 00:00 UTC

HalfDaysPerDay == 2

\* timedelta.days: a timedelta is normalised to days + a non-negative rest,
\* so .days is the floor of the difference in days
TimedeltaDays(delta) == delta \div HalfDaysPerDay

\* datetime.weekday(): Monday is 0
Weekday(ts) == (ts \div HalfDaysPerDay) % 7

Abs(x) == IF x < 0 THEN -x ELSE x

----------------------------------------------------------------------------
\* Sequences of numbers

RECURSIVE SeqSum(_)
SeqSum(s) == IF s = <<>> THEN 0 ELSE Head(s) + SeqSum(Tail(s))

SeqMin(s) == CHOOSE x \in Range(s) : \A y \in Range(s) : x <= y

SeqMax(s) == CHOOSE x \in Range(s) : \A y \in Range(s) : x >= y

\* s[a:b] of Python, on 0-based positions a (included) to b (excluded)
Slice(s, a, b) == SubSeq(s, a + 1, b)

\* s[-k:] of Python
LastK(s, k) == IF Len(s) <= k THEN s ELSE SubSeq(s, Len(s) - k + 1, Len(s))

\* sorted(price_data, key=timestamp): a stable insertion sort
RECURSIVE InsertByTimestamp(_, _)
InsertByTimestamp(sorted, p) ==
    IF sorted = <<>> THEN <<p>>
    ELSE IF sorted[Len(sorted)].timestamp <= p.timestamp THEN Append(sorted, p)
         ELSE Append(InsertByTimestamp(SubSeq(sorted, 1, Len(sorted) - 1), p),
                     sorted[Len(sorted)])

RECURSIVE SortByTimestamp(_)
SortByTimestamp(data) ==
    IF data = <<>> THEN <<>>
    ELSE InsertByTimestamp(SortByTimestamp(SubSeq(data, 1, Len(data) - 1)), data[Len(data)])

----------------------------------------------------------------------------
\* run_trend_analysis.py: the legacy signal detection of the EC2 runner.
\* Closes and volumes are positive integers; a comparison of a percentage or
\* of a ratio with a threshold is made on the cross-multiplied integers.

WindowSizes == <<7, 14, 21>>      \* line 231
WindowStep == 3                   \* line 236
DedupDays == 3                    \* line 249
WeeklyLimit == 2                  \* line 270

\* a signal as the detectors build it; m holds the numbers its metadata and
\* volume_spike_ratio are computed from
Signal(crypto_id, signal_type, detected_at, start_idx, window_size, m) ==
    [crypto_id |-> crypto_id, signal_type |-> signal_type, detected_at |-> detected_at,
     start_idx |-> start_idx, window_size |-> window_size, m |-> m]

\* lines 570-607: pump_percent > 50, dump_percent < -30, volume_spike_ratio >= 3.0
PumpAndDumpInWindow(w, crypto_id, start_idx) ==
    IF Len(w) < 12 THEN <<>>
    ELSE LET prices == [i \in 1..Len(w) |-> w[i].price_usd]
             volumes == [i \in 1..Len(w) |-> w[i].volume_24h]
             pump_start == SeqMin(Slice(prices, 0, 6))
             pump_peak == SeqMax(Slice(prices, 0, 6))
             dump_end == SeqMin(Slice(prices, 6, Len(w)))
             pump_volumes == Slice(volumes, 0, 6)
             max_volume == SeqMax(pump_volumes)
             sum_volume == SeqSum(pump_volumes)
         IN IF /\ (pump_peak - pump_start) * 100 > 50 * pump_start
               /\ (dump_end - pump_peak) * 100 < (-30) * pump_peak
               /\ sum_volume > 0 /\ max_volume * 6 >= 3 * sum_volume
            THEN <<Signal(crypto_id, "pump_and_dump", w[7].timestamp, start_idx, Len(w),
                          <<pump_start, pump_peak, dump_end, max_volume, sum_volume>>)>>
            ELSE <<>>

\* lines 609-630: the last volume of the window against 5 times the mean of the others
VolumeAnomalyInWindow(w, crypto_id, start_idx) ==
    IF Len(w) < 7 THEN <<>>
    ELSE LET volumes == [i \in 1..Len(w) |-> w[i].volume_24h]
             baseline == Slice(volumes, 0, Len(w) - 1)
             spike_volume == volumes[Len(w)]
         IN IF SeqSum(baseline) > 0 /\ spike_volume * Len(baseline) > 5 * SeqSum(baseline)
            THEN <<Signal(crypto_id, "volume_anomaly", w[Len(w)].timestamp, start_idx,
                          Len(w), <<spike_volume, SeqSum(baseline), Len(baseline)>>)>>
            ELSE <<>>

\* lines 632-656: downtrend < -15 over the first 7 bars, recovery > 10 over the rest
BottomedOutInWindow(w, crypto_id, start_idx) ==
    IF Len(w) < 14 THEN <<>>
    ELSE LET prices == [i \in 1..Len(w) |-> w[i].price_usd]
             d_first == prices[1]
             d_last == prices[7]
             r_first == prices[8]
             r_last == prices[Len(w)]
         IN IF /\ (d_last - d_first) * 100 < (-15) * d_first
               /\ (r_last - r_first) * 100 > 10 * r_first
            THEN <<Signal(crypto_id, "bottomed_out", w[Len(w)].timestamp, start_idx,
                          Len(w), <<d_first, d_last, r_first, r_last>>)>>
            ELSE <<>>

\* detect_signals_in_window (lines 560-658)
DetectSignalsInWindow(window_data, crypto_id, window_start_idx) ==
    IF Len(window_data) < 7 THEN <<>>
    ELSE PumpAndDumpInWindow(window_data, crypto_id, window_start_idx)
         \o VolumeAnomalyInWindow(window_data, crypto_id, window_start_idx)
         \o BottomedOutInWindow(window_data, crypto_id, window_start_idx)

\* lines 233-241: range(0, len - window_size + 1, 3) for one window size
RECURSIVE ScanFrom(_, _, _, _)
ScanFrom(sorted_data, crypto_id, window_size, start_idx) ==
    IF start_idx > Len(sorted_data) - window_size THEN <<>>
    ELSE DetectSignalsInWindow(Slice(sorted_data, start_idx, start_idx + window_size),
                               crypto_id, start_idx)
         \o ScanFrom(sorted_data, crypto_id, window_size, start_idx + WindowStep)

\* the start indexes range(0, len(sorted_data) - window_size + 1, 3) visits
\* from start_idx on (line 236), for a series of n bars
RECURSIVE ScannedStarts(_, _, _)
ScannedStarts(n, window_size, start_idx) ==
    IF start_idx > n - window_size THEN {}
    ELSE {start_idx} \cup ScannedStarts(n, window_size, start_idx + WindowStep)

\* the windows the scan of a series of n bars forms (lines 233-237)
ScannedWindows(n) ==
    {win \in UNION {{[start_idx |-> s, window_size |-> WindowSizes[k]] :
                        s \in ScannedStarts(n, WindowSizes[k], 0)} :
                    k \in 1..Len(WindowSizes)} :
        n >= win.window_size}

\* the candidate pool, in the order the windows are scanned
RECURSIVE CandidatePool(_, _, _)
CandidatePool(sorted_data, crypto_id, k) ==
    IF k > Len(WindowSizes) THEN <<>>
    ELSE (IF Len(sorted_data) >= WindowSizes[k]
          THEN ScanFrom(sorted_data, crypto_id, WindowSizes[k], 0)
          ELSE <<>>)
         \o CandidatePool(sorted_data, crypto_id, k + 1)

\* lines 248-249: the duplicate test of the deduplication
IsDuplicate(signal, existing) ==
    /\ signal.signal_type = existing.signal_type
    /\ Abs(TimedeltaDays(signal.detected_at - existing.detected_at)) < DedupDays

\* lines 243-253: a signal is kept unless a kept one is a duplicate of it
RECURSIVE RemoveDuplicates(_, _)
RemoveDuplicates(pool, unique_signals) ==
    IF pool = <<>> THEN unique_signals
    ELSE RemoveDuplicates(Tail(pool),
            IF \E i \in 1..Len(unique_signals) : IsDuplicate(Head(pool), unique_signals[i])
            THEN unique_signals
            ELSE Append(unique_signals, Head(pool)))

\* line 261: week_start = detected_at - timedelta(days=detected_at.weekday())
WeekStart(detected_at) == detected_at - HalfDaysPerDay * Weekday(detected_at)

\* lines 260-267: the key under which a signal is counted
SignalKey(signal) == <<signal.crypto_id, signal.signal_type, WeekStart(signal.detected_at)>>

\* lines 255-272: at most 2 signals are kept per key
RECURSIVE LimitPerWeek(_, _)
LimitPerWeek(unique_signals, filtered_signals) ==
    IF unique_signals = <<>> THEN filtered_signals
    ELSE LimitPerWeek(Tail(unique_signals),
            IF Cardinality({i \in 1..Len(filtered_signals) :
                               SignalKey(filtered_signals[i]) = SignalKey(Head(unique_signals))})
               < WeeklyLimit
            THEN Append(filtered_signals, Head(unique_signals))
            ELSE filtered_signals)

\* detect_signals_sliding_window (lines 218-274)
DetectSignalsSlidingWindow(data, crypto_id) ==
    IF Len(data) < MinBars THEN <<>>
    ELSE LimitPerWeek(
            RemoveDuplicates(CandidatePool(SortByTimestamp(data), crypto_id, 1), <<>>),
            <<>>)

\* validate_signal_quality (lines 276-300)
ValidateSignalQuality(signal) ==
    CASE signal.signal_type = "pump_and_dump" ->
            ~ \/ (signal.m[2] - signal.m[1]) * 100 < 50 * signal.m[1]
              \/ (signal.m[3] - signal.m[2]) * 100 > (-30) * signal.m[2]
              \/ signal.m[4] * 6 < 3 * signal.m[5]
      [] signal.signal_type = "volume_anomaly" ->
            ~ (signal.m[1] * signal.m[3] < 5 * signal.m[2])
      [] signal.signal_type = "bottomed_out" ->
            ~ \/ (signal.m[2] - signal.m[1]) * 100 > (-15) * signal.m[1]
              \/ (signal.m[4] - signal.m[3]) * 100 < 10 * signal.m[3]
      [] OTHER -> TRUE

----------------------------------------------------------------------------
\* TrendAnalyzer (lambda_functions/trend_analysis/analyzers/trend_analyzer.py)

\* self.min_data_points.get(timeframe, 5)
MinDataPoints(timeframe) ==
    CASE timeframe = "7d" -> 5
      [] timeframe = "30d" -> 15
      [] OTHER -> 5

\* _filter_data_by_timeframe (lines 88-120): the cutoff in days; a timeframe
\* other than 24h, 7d and 30d (14d is one) gets the cutoff of 24h
LambdaCutoffDays(timeframe) ==
    CASE timeframe = "7d" -> 7
      [] timeframe = "30d" -> 30
      [] OTHER -> 1

\* the number of daily bars, the last one taken just before the run, whose
\* timestamp >= now - cutoff
FilteredCount(pd, timeframe) == Min(pd.len, LambdaCutoffDays(timeframe))

\* TrendAnalyzer.analyze_trend returns None (FALSE) when the slice is too
\* short, and on any exception; it never raises.
LambdaAnalyzeTrend(pd, timeframe) ==
    FilteredCount(pd, timeframe) >= MinDataPoints(timeframe)

----------------------------------------------------------------------------
\* SignalDetector.detect_signals (analyzers/signal_detector.py): five
\* detectors run in a fixed order, each appends at most one signal whose
\* detected_at is datetime.now(); the method never raises.  Which detectors
\* fire is decided by the bars (pd.fired).

LambdaDetectSignals(pd, crypto_id) ==
    IF pd.len < MinBars THEN <<>>
    ELSE [i \in 1..Len(Restrict(LambdaSignalTypes, pd.fired)) |->
            Signal(crypto_id, Restrict(LambdaSignalTypes, pd.fired)[i], Now, 0, 0, <<>>)]

\* the bars an asset can have: 13, 14 or 15 daily bars, and any set of at
\* most MaxSignals detectors firing on them
LambdaInputs ==
    {[len |-> l, fired |-> f, bars |-> <<>>, family |-> "none", series |-> <<>>] :
        l \in {MinBars - 1, MinBars, MinBars + 1},
        f \in {S \in SUBSET Range(LambdaSignalTypes) : Cardinality(S) <= MaxSignals}}

\* a guard that lets every asset through, against which the skip of an
\* asset with too few bars is exercised
TooFewBarsNever(pd) == FALSE

\* if len(price_data) < 14: continue
TooFewBars(pd) == pd.len < MinBars

\* price_data of an asset that is skipped: only its length is looked at
SkippedData(pd) == [NoData EXCEPT !.len = pd.len]

----------------------------------------------------------------------------
\* lambda_handler (lambda_functions/trend_analysis/handler.py)

\* Two other orders of the blocks of lambda_handler, against which the
\* ordering properties are exercised: the signals of an asset ahead of its
\* trends, and the final status write ahead of the loop.
LambdaFlowSignalsFirst(at) ==
    CASE at = "get_active" -> "asset"
      [] at = "read" -> "detect"
      [] at = "signals" -> "trend"
      [] at = "trend" -> "count"
      [] at = "loop" -> "final_update"
      [] at = "final_update" -> "finally"

LambdaFlowFinalFirst(at) ==
    CASE at = "get_active" -> "final_update"
      [] at = "final_update" -> "asset"
      [] at = "read" -> "trend"
      [] at = "trend" -> "detect"
      [] at = "signals" -> "count"
      [] at = "loop" -> "finally"

\* The order of the blocks of lambda_handler: where control goes after each.
LambdaFlow(at) ==
    CASE at = "get_active" -> "asset"          \* line 58: the for loop
      [] at = "read" -> "trend"                \* lines 75-91 follow the bar read
      [] at = "trend" -> "detect"              \* lines 93-105 follow the timeframes
      [] at = "signals" -> "count"             \* line 107
      [] at = "loop" -> "final_update"         \* lines 113-115
      [] at = "final_update" -> "finally"      \* lines 132-144, 165-171

\* db_client.update_analysis_run(run_id, status, ...) as the handler calls it:
\* skipped when run_id is falsy; an exception is swallowed after rollback.
UpdateRun(ok, status, count, error_message) ==
    IF run_id = 0
    THEN UNCHANGED <<analysis_runs, conn>>
    ELSE /\ analysis_runs' = IF ok THEN UpdateAnalysisRunRow(analysis_runs, status, count,
                                                          error_message)
                             ELSE analysis_runs
         /\ conn' = "open"

LambdaConnect ==
    /\ orch = "lambda" /\ pc = "connect"
    /\ \E ok \in BOOLEAN :
         IF ok THEN conn' = "open" /\ pc' = "log_run"
               ELSE conn' = conn /\ pc' = "except"
    /\ UNCHANGED orchFrame
    /\ UNCHANGED <<orch, analysis_mode, run_id, analysis_runs, active_cryptos, idx, tfi,
                   price_data, signals, processed_count, total_trends_stored,
                   total_signals_detected, asset_writes, raised, cancelled, statusCode>>

LambdaLogAnalysisRun ==
    /\ orch = "lambda" /\ pc = "log_run"
    /\ \E ok \in StatementOutcomes(conn) :
         IF ok THEN /\ analysis_runs' = LogAnalysisRunRow("trend_analysis", "running")
                    /\ run_id' = 1
               ELSE /\ analysis_runs' = analysis_runs
                    /\ run_id' = 0
    /\ conn' = "open"
    /\ pc' = "get_active"
    /\ UNCHANGED orchFrame
    /\ UNCHANGED <<orch, analysis_mode, active_cryptos, idx, tfi,
                   price_data, signals, processed_count, total_trends_stored,
                   total_signals_detected, asset_writes, raised, cancelled, statusCode>>

LambdaGetActiveCryptocurrencies ==
    /\ orch = "lambda" /\ pc = "get_active"
    /\ \E ok \in StatementOutcomes(conn) :
         IF ok THEN /\ conn' = conn
                    /\ pc' = IF active_cryptos = 0 THEN "update_empty"
                             ELSE LambdaFlow("get_active")
               ELSE /\ conn' = "aborted"
                    /\ pc' = "except"
    /\ UNCHANGED orchFrame
    /\ UNCHANGED <<orch, analysis_mode, run_id, analysis_runs, active_cryptos, idx, tfi,
                   price_data, signals, processed_count, total_trends_stored,
                   total_signals_detected, asset_writes, raised, cancelled, statusCode>>

\* lines 36-43: no active asset
LambdaUpdateEmpty ==
    /\ orch = "lambda" /\ pc = "update_empty"
    /\ \E ok \in StatementOutcomes(conn) : UpdateRun(ok, "completed", 0, "none")
    /\ statusCode' = 200
    /\ pc' = "finally"
    /\ UNCHANGED orchFrame
    /\ UNCHANGED <<orch, analysis_mode, run_id, active_cryptos, idx, tfi,
                   price_data, signals, processed_count, total_trends_stored,
                   total_signals_detected, asset_writes, raised, cancelled>>

\* lines 58-73: the next asset, its bar read and the 14 bar guard.  A failed
\* read raises out of get_price_data_for_analysis (no rollback there) and is
\* caught at line 109.
LambdaGetPriceData ==
    /\ orch = "lambda" /\ pc = "asset" /\ idx <= active_cryptos
    /\ \E ok \in StatementOutcomes(conn) :
         IF ok
         THEN \E pd \in LambdaInputs :
                 /\ conn' = conn
                 /\ raised' = raised
                 /\ IF TooFewBars(pd)
                    THEN price_data' = SkippedData(pd) /\ idx' = idx + 1 /\ pc' = pc
                    ELSE price_data' = pd /\ idx' = idx /\ pc' = LambdaFlow("read")
         ELSE /\ conn' = "aborted"
              /\ raised' = TRUE
              /\ price_data' = NoData /\ idx' = idx + 1 /\ pc' = pc
    /\ asset_writes' = <<>>
    /\ UNCHANGED orchFrame
    /\ UNCHANGED <<orch, analysis_mode, run_id, analysis_runs, active_cryptos, tfi,
                   signals, processed_count, total_trends_stored,
                   total_signals_detected, cancelled, statusCode>>

LambdaLoopEnd ==
    /\ orch = "lambda" /\ pc = "asset" /\ idx > active_cryptos
    /\ pc' = LambdaFlow("loop")
    /\ UNCHANGED orchFrame
    /\ UNCHANGED <<orch, analysis_mode, conn, run_id, analysis_runs, active_cryptos, idx,
                   tfi, price_data, signals, processed_count, total_trends_stored,
                   total_signals_detected, asset_writes, raised, cancelled, statusCode>>

\* lines 77-91: one timeframe: analyze_trend, then store_trend_analysis
\* (commit; on failure rollback and raise, caught at line 90)
LambdaTrend ==
    /\ orch = "lambda" /\ pc = "trend"
    /\ IF LambdaAnalyzeTrend(price_data, Timeframes[tfi])
       THEN \E ok \in StatementOutcomes(conn) :
               /\ conn' = "open"
               /\ IF ok
                  THEN /\ asset_writes' = Append(asset_writes, TrendRow(idx, Timeframes[tfi]))
                       /\ total_trends_stored' = total_trends_stored + 1
                       /\ raised' = raised
                  ELSE /\ raised' = TRUE
                       /\ UNCHANGED <<asset_writes, total_trends_stored>>
       ELSE UNCHANGED <<conn, asset_writes, total_trends_stored, raised>>
    /\ IF tfi < Len(Timeframes)
       THEN tfi' = tfi + 1 /\ pc' = pc
       ELSE tfi' = 1 /\ pc' = LambdaFlow("trend")
    /\ UNCHANGED orchFrame
    /\ UNCHANGED <<orch, analysis_mode, run_id, analysis_runs, active_cryptos, idx,
                   price_data, signals, processed_count, total_signals_detected,
                   cancelled, statusCode>>

\* line 95
LambdaDetect ==
    /\ orch = "lambda" /\ pc = "detect"
    /\ signals' = LambdaDetectSignals(price_data, idx)
    /\ pc' = "store_signal"
    /\ UNCHANGED orchFrame
    /\ UNCHANGED <<orch, analysis_mode, conn, run_id, analysis_runs, active_cryptos, idx,
                   tfi, price_data, processed_count, total_trends_stored,
                   total_signals_detected, asset_writes, raised, cancelled, statusCode>>

\* lines 97-105: store_signal_event (commit; on failure rollback and raise,
\* caught at line 104, which ends the loop over the signals)
LambdaStoreSignalEvent ==
    /\ orch = "lambda" /\ pc = "store_signal" /\ signals # <<>>
    /\ \E ok \in StatementOutcomes(conn) :
         /\ conn' = "open"
         /\ IF ok
            THEN /\ asset_writes' = Append(asset_writes, SignalRow(Head(signals)))
                 /\ total_signals_detected' = total_signals_detected + 1
                 /\ signals' = Tail(signals)
                 /\ raised' = raised
                 /\ pc' = pc
            ELSE /\ raised' = TRUE
                 /\ signals' = <<>>
                 /\ pc' = LambdaFlow("signals")
                 /\ UNCHANGED <<asset_writes, total_signals_detected>>
    /\ UNCHANGED orchFrame
    /\ UNCHANGED <<orch, analysis_mode, run_id, analysis_runs, active_cryptos, idx, tfi,
                   price_data, processed_count, total_trends_stored, cancelled,
                   statusCode>>

LambdaSignalsDone ==
    /\ orch = "lambda" /\ pc = "store_signal" /\ signals = <<>>
    /\ pc' = LambdaFlow("signals")
    /\ UNCHANGED orchFrame
    /\ UNCHANGED <<orch, analysis_mode, conn, run_id, analysis_runs, active_cryptos, idx,
                   tfi, price_data, signals, processed_count, total_trends_stored,
                   total_signals_detected, asset_writes, raised, cancelled, statusCode>>

\* line 107, then the next iteration
LambdaCount ==
    /\ orch = "lambda" /\ pc = "count"
    /\ processed_count' = processed_count + 1
    /\ idx' = idx + 1
    /\ price_data' = NoData
    /\ pc' = "asset"
    /\ UNCHANGED orchFrame
    /\ UNCHANGED <<orch, analysis_mode, conn, run_id, analysis_runs, active_cryptos, tfi,
                   signals, total_trends_stored, total_signals_detected, asset_writes,
                   raised, cancelled, statusCode>>

\* lines 113-144
LambdaFinalUpdate ==
    /\ orch = "lambda" /\ pc = "final_update"
    /\ \E ok \in StatementOutcomes(conn) : UpdateRun(ok, "completed", processed_count, "none")
    /\ statusCode' = 200
    /\ pc' = LambdaFlow("final_update")
    /\ UNCHANGED orchFrame
    /\ UNCHANGED <<orch, analysis_mode, run_id, active_cryptos, idx, tfi,
                   price_data, signals, processed_count, total_trends_stored,
                   total_signals_detected, asset_writes, raised, cancelled>>

\* lines 146-163: the outer except
LambdaExcept ==
    /\ orch = "lambda" /\ pc = "except"
    /\ \E ok \in StatementOutcomes(conn) : UpdateRun(ok, "failed", -1, "error")
    /\ statusCode' = 500
    /\ pc' = "finally"
    /\ UNCHANGED orchFrame
    /\ UNCHANGED <<orch, analysis_mode, run_id, active_cryptos, idx, tfi,
                   price_data, signals, processed_count, total_trends_stored,
                   total_signals_detected, asset_writes, raised, cancelled>>

\* lines 165-171: db_client.close() when db_client was bound
LambdaFinally ==
    /\ orch = "lambda" /\ pc = "finally"
    /\ conn' = IF conn = "none" THEN conn ELSE "closed"
    /\ pc' = "done"
    /\ UNCHANGED orchFrame
    /\ UNCHANGED <<orch, analysis_mode, run_id, analysis_runs, active_cryptos, idx, tfi,
                   price_data, signals, processed_count, total_trends_stored,
                   total_signals_detected, asset_writes, raised, cancelled, statusCode>>

InAsset == pc \in {"asset", "trend", "detect", "store_signal", "count"}

\* A cancellation signal while the assets are processed.  lambda_handler
\* installs no handler and catches only Exception: an interrupt unwinds
\* through the finally block, a kill ends the process where it is.
LambdaCancel ==
    /\ orch = "lambda" /\ InAsset /\ ~cancelled
    /\ cancelled' = TRUE
    /\ pc' \in {"finally", "killed"}
    /\ UNCHANGED orchFrame
    /\ UNCHANGED <<orch, analysis_mode, conn, run_id, analysis_runs, active_cryptos, idx,
                   tfi, price_data, signals, processed_count, total_trends_stored,
                   total_signals_detected, asset_writes, raised, statusCode>>

LambdaNext ==
    \/ LambdaConnect
    \/ LambdaLogAnalysisRun
    \/ LambdaGetActiveCryptocurrencies
    \/ LambdaUpdateEmpty
    \/ LambdaGetPriceData
    \/ LambdaLoopEnd
    \/ LambdaTrend
    \/ LambdaDetect
    \/ LambdaStoreSignalEvent
    \/ LambdaSignalsDone
    \/ LambdaCount
    \/ LambdaFinalUpdate
    \/ LambdaExcept
    \/ LambdaFinally
    \/ LambdaCancel

----------------------------------------------------------------------------
\* Bar series for detect_signals_sliding_window: daily bars; the closes
\* follow one of three courses; the bars of the tail may carry another time
\* of day (12:00) than the bars before them (00:00); up to MaxSpikes bars
\* carry a volume spike, each spike ten times the one before.

PriceShapes == {"flat", "pump", "vee"}

SpikeVolume(k) ==
    CASE k = 0 -> 1
      [] k = 1 -> 6
      [] k = 2 -> 60
      [] OTHER -> 600

\* the close of the bar at 0-based position i
ShapePrice(shape, i) ==
    CASE shape = "pump" -> IF i = 5 THEN 160 ELSE 100
      [] shape = "vee" -> IF i <= 6 THEN 100 - 3 * i ELSE 82 + 2 * (i - 7)
      [] OTHER -> 100

Bar(timestamp, price_usd, volume_24h) ==
    [timestamp |-> timestamp, price_usd |-> price_usd, volume_24h |-> volume_24h]

ScanIdle ==
    /\ price_shape = "flat" /\ first_day = 0 /\ scan_input = <<>> /\ spikes = 0
    /\ scan_pool = <<>> /\ scan_unique = <<>> /\ scan_output = <<>> /\ scan_done = TRUE

OrchIdle ==
    /\ orch = "none" /\ analysis_mode = "none" /\ pc = "done" /\ conn = "none"
    /\ run_id = 0 /\ analysis_runs = NoRun /\ active_cryptos = 0 /\ idx = 1 /\ tfi = 1
    /\ price_data = NoData /\ signals = <<>> /\ processed_count = 0
    /\ total_trends_stored = 0 /\ total_signals_detected = 0 /\ asset_writes = <<>>
    /\ raised = FALSE /\ cancelled = FALSE /\ statusCode = -1

\* no asset under analysis
NoInput == [path |-> "none", bars |-> <<>>, stats |-> <<>>, adx |-> <<>>,
            numeric |-> "none", signal_type |-> "none", percentile |-> <<>>]

NoTables == [trend_analysis |-> {}, signal_events |-> <<>>]

\* no query made
NoQuery == [intent_type |-> "none", timeframe |-> "none", rows |-> {}]

AnIdle ==
    /\ an_input = NoInput /\ an_now = 0 /\ an_trends = <<>> /\ an_signals = <<>>
    /\ trend_analysis = {} /\ signal_events = <<>>
    /\ an_runs = 0 /\ an_first = NoTables
    /\ trend_created = {} /\ query_result = NoQuery

\* no request
NoEvent == [body |-> "none", query |-> "none", filters |-> "none",
            secret |-> TRUE, connect |-> TRUE]

QryIdle ==
    /\ q_event = NoEvent /\ q_pc = "done" /\ q_db_client = "unbound" /\ q_response = <<>>

ScanInit ==
    /\ OrchIdle
    /\ AnIdle
    /\ QryIdle
    /\ price_shape \in PriceShapes
    /\ first_day \in 0..MaxFirstDay
    /\ scan_input = <<>>
    /\ spikes = 0
    /\ scan_pool = <<>>
    /\ scan_unique = <<>>
    /\ scan_output = <<>>
    /\ scan_done = FALSE

\* one more bar, a day after the last one
AddBar ==
    /\ ~scan_done /\ Len(scan_input) < MaxBars
    /\ \E spike \in BOOLEAN, noon \in 0..1 :
         /\ spike => spikes < MaxSpikes
         /\ scan_input # <<>> =>
               noon >= scan_input[Len(scan_input)].timestamp % HalfDaysPerDay
         /\ scan_input' = Append(scan_input,
               Bar(HalfDaysPerDay * (first_day + Len(scan_input)) + noon,
                   ShapePrice(price_shape, Len(scan_input)),
                   IF spike THEN SpikeVolume(spikes + 1) ELSE SpikeVolume(0)))
         /\ spikes' = IF spike THEN spikes + 1 ELSE spikes
    /\ UNCHANGED <<scanFrame, price_shape, first_day, scan_pool, scan_unique, scan_output,
                   scan_done>>

\* signals = detect_signals_sliding_window(price_data, crypto_id)
Scan ==
    /\ ~scan_done /\ Len(scan_input) >= MinBars - 1
    /\ scan_pool' = IF Len(scan_input) < MinBars THEN <<>>
                    ELSE CandidatePool(SortByTimestamp(scan_input), 1, 1)
    /\ scan_unique' = RemoveDuplicates(scan_pool', <<>>)
    /\ scan_output' = DetectSignalsSlidingWindow(scan_input, 1)
    /\ scan_done' = TRUE
    /\ UNCHANGED <<scanFrame, price_shape, first_day, scan_input, spikes>>

ScanNext == AddBar \/ Scan

SpecScan == ScanInit /\ [][ScanNext]_vars

----------------------------------------------------------------------------
\* The EC2 runner (trend_analysis_ec2/run_trend_analysis.py)

MinIndicatorBars == 50      \* lines 312, 414
LongHistoryBars == 200      \* lines 422, 500: SMA(200), len(rsi) > 200

\* legacy mode: the bars of an asset.  Daily bars, the last one taken at the
\* time of the run; spike_at holds the 0-based positions of the volume spikes
\* and the bars from position noon_from on are taken at 12:00.
RECURSIVE MkBars(_, _, _, _, _)
MkBars(n, shape, noon_from, spike_at, day0) ==
    IF n = 0 THEN <<>>
    ELSE Append(MkBars(n - 1, shape, noon_from, spike_at, day0),
                Bar(HalfDaysPerDay * (day0 + n - 1) + (IF n - 1 >= noon_from THEN 1 ELSE 0),
                    ShapePrice(shape, n - 1),
                    IF n - 1 \in spike_at
                    THEN SpikeVolume(Cardinality({k \in spike_at : k <= n - 1}))
                    ELSE SpikeVolume(0)))

SpikeSets == {{}, {13}, {13, 15}}

EC2LegacyInputs ==
    {[len |-> n, fired |-> {}, bars |-> MkBars(n, shape, noon_from, spike_at, 0),
      family |-> "none", series |-> <<>>] :
        n \in {MinBars - 1, MaxBars}, shape \in PriceShapes,
        noon_from \in {MaxBars - 1, MaxBars}, spike_at \in SpikeSets}

\* advanced mode: the number of bars, and the tail of one indicator series
\* as the booleans the crossing tests compare (macd_line > signal_line,
\* bandwidth <= its 10th percentile, rsi > overbought, rsi < oversold,
\* fast_ma > slow_ma); the other series hold no crossing.
IndicatorFamilies == {"macd", "bollinger", "rsi_over", "rsi_under", "ma"}

EC2AdvancedInputs ==
    {[len |-> n, fired |-> {}, bars |-> <<>>, family |-> f, series |-> sr] :
        n \in {MinBars - 1, MinIndicatorBars - 1, MinIndicatorBars, LongHistoryBars + 1},
        f \in IndicatorFamilies, sr \in [1..IndLen -> BOOLEAN]}

EC2Inputs(mode) == IF mode = "advanced" THEN EC2AdvancedInputs ELSE EC2LegacyInputs

\* timestamp of the bar at position i of the tail: daily bars that end at the run
TailTimestamp(i) == Now - HalfDaysPerDay * (IndLen - i)

\* lines 135-142, 322-329: the days of a timeframe
TimeframeDays(timeframe) ==
    CASE timeframe = "14d" -> 14
      [] timeframe = "30d" -> 30
      [] OTHER -> 7

\* analyze_trend (lines 133-216): None (FALSE) under 3 bars in the slice
EC2AnalyzeTrendLegacy(pd, timeframe) ==
    Cardinality({i \in 1..Len(pd.bars) :
        pd.bars[i].timestamp >= pd.bars[Len(pd.bars)].timestamp
                                    - HalfDaysPerDay * TimeframeDays(timeframe)}) >= 3

\* analyze_trend_advanced (lines 302-400): None under 50 bars
EC2AnalyzeTrendAdvanced(pd, timeframe) ==
    /\ pd.len >= MinIndicatorBars
    /\ Min(pd.len, TimeframeDays(timeframe)) >= 3

EC2AnalyzeTrend(mode, pd, timeframe) ==
    IF mode = "advanced" THEN EC2AnalyzeTrendAdvanced(pd, timeframe)
    ELSE EC2AnalyzeTrendLegacy(pd, timeframe)

\* positions i of a series with s[i-1] false and s[i] true, in order
RECURSIVE RisingEdges(_, _)
RisingEdges(sr, i) ==
    IF i > Len(sr) THEN <<>>
    ELSE (IF ~sr[i - 1] /\ sr[i] THEN <<i>> ELSE <<>>) \o RisingEdges(sr, i + 1)

RECURSIVE FallingEdges(_, _)
FallingEdges(sr, i) ==
    IF i > Len(sr) THEN <<>>
    ELSE (IF sr[i - 1] /\ ~sr[i] THEN <<i>> ELSE <<>>) \o FallingEdges(sr, i + 1)

SeriesOf(pd, family) ==
    IF pd.family = family THEN pd.series ELSE [i \in 1..IndLen |-> FALSE]

SignalsAt(crypto_id, signal_type, positions) ==
    [k \in 1..Len(positions) |->
        Signal(crypto_id, signal_type, TailTimestamp(positions[k]), 0, 0, <<>>)]

\* detect_signals_advanced (lines 402-558): the crossings of each indicator,
\* the last 3, 2, 2 or 1 of each kind; nothing is removed from the list
EC2DetectSignalsAdvanced(pd, crypto_id) ==
    IF pd.len < MinIndicatorBars THEN <<>>
    ELSE \* 1. detect_macd_signals (technical_indicators.py lines 118-148)
         SignalsAt(crypto_id, "macd_bullish", LastK(RisingEdges(SeriesOf(pd, "macd"), 2), 3))
         \o SignalsAt(crypto_id, "macd_bearish",
                      LastK(FallingEdges(SeriesOf(pd, "macd"), 2), 3))
         \* 2. squeeze_breakout of detect_bollinger_signals (lines 186-189)
         \o SignalsAt(crypto_id, "bollinger_breakout",
                      LastK(FallingEdges(SeriesOf(pd, "bollinger"), 2), 2))
         \* 3. the exit signals of detect_rsi_signals (lines 218-231)
         \o (IF pd.len > LongHistoryBars
             THEN SignalsAt(crypto_id, "rsi_overbought",
                            LastK(FallingEdges(SeriesOf(pd, "rsi_over"), 2), 2))
                  \o SignalsAt(crypto_id, "rsi_oversold",
                               LastK(FallingEdges(SeriesOf(pd, "rsi_under"), 2), 2))
             ELSE <<>>)
         \* 4. detect_ma_crossover (lines 93-115), SMA(200) defined somewhere
         \o (IF pd.len >= LongHistoryBars
             THEN SignalsAt(crypto_id, "golden_cross",
                            LastK(RisingEdges(SeriesOf(pd, "ma"), 2), 1))
                  \o SignalsAt(crypto_id, "death_cross",
                               LastK(FallingEdges(SeriesOf(pd, "ma"), 2), 1))
             ELSE <<>>)

\* lines 729-739: the detection of the mode, then the quality gate
RECURSIVE QualitySignals(_)
QualitySignals(sigs) ==
    IF sigs = <<>> THEN <<>>
    ELSE (IF ValidateSignalQuality(Head(sigs)) THEN <<Head(sigs)>> ELSE <<>>)
         \o QualitySignals(Tail(sigs))

EC2DetectSignals(mode, pd, crypto_id) ==
    QualitySignals(IF mode = "advanced" THEN EC2DetectSignalsAdvanced(pd, crypto_id)
                   ELSE DetectSignalsSlidingWindow(pd.bars, crypto_id))

\* The order of the blocks of run_analysis.
EC2Flow(at) ==
    CASE at = "get_active" -> "asset"       \* line 699
      [] at = "read" -> "trend"             \* lines 716-727
      [] at = "trend" -> "detect"           \* lines 729-739
      [] at = "loop" -> "close"             \* line 756

\* lines 675-681
EC2CheckEnv ==
    /\ orch = "ec2" /\ pc = "check_env"
    /\ \E missing_vars \in BOOLEAN :
         IF missing_vars THEN statusCode' = 1 /\ pc' = "done"
                         ELSE statusCode' = statusCode /\ pc' = "connect"
    /\ UNCHANGED orchFrame
    /\ UNCHANGED <<orch, analysis_mode, conn, run_id, analysis_runs, active_cryptos, idx,
                   tfi, price_data, signals, processed_count, total_trends_stored,
                   total_signals_detected, asset_writes, raised, cancelled>>

\* line 687
EC2Connect ==
    /\ orch = "ec2" /\ pc = "connect"
    /\ \E ok \in BOOLEAN :
         IF ok THEN conn' = "open" /\ pc' = "get_active"
               ELSE conn' = conn /\ pc' = "except"
    /\ UNCHANGED orchFrame
    /\ UNCHANGED <<orch, analysis_mode, run_id, analysis_runs, active_cryptos, idx, tfi,
                   price_data, signals, processed_count, total_trends_stored,
                   total_signals_detected, asset_writes, raised, cancelled, statusCode>>

\* line 690
EC2GetActiveCryptocurrencies ==
    /\ orch = "ec2" /\ pc = "get_active"
    /\ \E ok \in StatementOutcomes(conn) :
         IF ok THEN conn' = conn /\ pc' = EC2Flow("get_active")
               ELSE conn' = "aborted" /\ pc' = "except"
    /\ UNCHANGED orchFrame
    /\ UNCHANGED <<orch, analysis_mode, run_id, analysis_runs, active_cryptos, idx, tfi,
                   price_data, signals, processed_count, total_trends_stored,
                   total_signals_detected, asset_writes, raised, cancelled, statusCode>>

\* lines 699-711: an exception of any statement of an asset is caught at
\* line 751; the EC2 DatabaseClient never rolls back
EC2GetPriceData ==
    /\ orch = "ec2" /\ pc = "asset" /\ idx <= active_cryptos
    /\ \E ok \in StatementOutcomes(conn) :
         IF ok
         THEN \E pd \in EC2Inputs(analysis_mode) :
                 /\ conn' = conn
                 /\ raised' = raised
                 /\ IF TooFewBars(pd)
                    THEN price_data' = SkippedData(pd) /\ idx' = idx + 1 /\ pc' = pc
                    ELSE price_data' = pd /\ idx' = idx /\ pc' = EC2Flow("read")
         ELSE /\ conn' = "aborted"
              /\ raised' = TRUE
              /\ price_data' = NoData /\ idx' = idx + 1 /\ pc' = pc
    /\ asset_writes' = <<>>
    /\ UNCHANGED orchFrame
    /\ UNCHANGED <<orch, analysis_mode, run_id, analysis_runs, active_cryptos, tfi,
                   signals, processed_count, total_trends_stored,
                   total_signals_detected, cancelled, statusCode>>

EC2LoopEnd ==
    /\ orch = "ec2" /\ pc = "asset" /\ idx > active_cryptos
    /\ pc' = EC2Flow("loop")
    /\ UNCHANGED orchFrame
    /\ UNCHANGED <<orch, analysis_mode, conn, run_id, analysis_runs, active_cryptos, idx,
                   tfi, price_data, signals, processed_count, total_trends_stored,
                   total_signals_detected, asset_writes, raised, cancelled, statusCode>>

\* lines 718-727: one timeframe; a failed upsert ends the asset
EC2Trend ==
    /\ orch = "ec2" /\ pc = "trend"
    /\ IF EC2AnalyzeTrend(analysis_mode, price_data, Timeframes[tfi])
       THEN \E ok \in StatementOutcomes(conn) :
               IF ok
               THEN /\ asset_writes' = Append(asset_writes, TrendRow(idx, Timeframes[tfi]))
                    /\ total_trends_stored' = total_trends_stored + 1
                    /\ IF tfi < Len(Timeframes)
                       THEN tfi' = tfi + 1 /\ pc' = pc
                       ELSE tfi' = 1 /\ pc' = EC2Flow("trend")
                    /\ UNCHANGED <<conn, raised, idx, price_data>>
               ELSE /\ conn' = "aborted"
                    /\ raised' = TRUE
                    /\ tfi' = 1 /\ idx' = idx + 1 /\ price_data' = NoData /\ pc' = "asset"
                    /\ UNCHANGED <<asset_writes, total_trends_stored>>
       ELSE /\ IF tfi < Len(Timeframes)
               THEN tfi' = tfi + 1 /\ pc' = pc
               ELSE tfi' = 1 /\ pc' = EC2Flow("trend")
            /\ UNCHANGED <<conn, asset_writes, total_trends_stored, raised, idx, price_data>>
    /\ UNCHANGED orchFrame
    /\ UNCHANGED <<orch, analysis_mode, run_id, analysis_runs, active_cryptos,
                   signals, processed_count, total_signals_detected,
                   cancelled, statusCode>>

\* lines 729-739
EC2Detect ==
    /\ orch = "ec2" /\ pc = "detect"
    /\ signals' = EC2DetectSignals(analysis_mode, price_data, idx)
    /\ pc' = "store_signal"
    /\ UNCHANGED orchFrame
    /\ UNCHANGED <<orch, analysis_mode, conn, run_id, analysis_runs, active_cryptos, idx,
                   tfi, price_data, processed_count, total_trends_stored,
                   total_signals_detected, asset_writes, raised, cancelled, statusCode>>

\* lines 742-746: a failed insert ends the asset
EC2StoreSignalEvent ==
    /\ orch = "ec2" /\ pc = "store_signal" /\ signals # <<>>
    /\ \E ok \in StatementOutcomes(conn) :
         IF ok
         THEN /\ asset_writes' = Append(asset_writes, SignalRow(Head(signals)))
              /\ total_signals_detected' = total_signals_detected + 1
              /\ signals' = Tail(signals)
              /\ UNCHANGED <<conn, raised, idx, price_data, pc>>
         ELSE /\ conn' = "aborted"
              /\ raised' = TRUE
              /\ signals' = <<>>
              /\ idx' = idx + 1 /\ price_data' = NoData /\ pc' = "asset"
              /\ UNCHANGED <<asset_writes, total_signals_detected>>
    /\ UNCHANGED orchFrame
    /\ UNCHANGED <<orch, analysis_mode, run_id, analysis_runs, active_cryptos, tfi,
                   processed_count, total_trends_stored, cancelled, statusCode>>

\* line 748, then the next iteration
EC2Count ==
    /\ orch = "ec2" /\ pc = "store_signal" /\ signals = <<>>
    /\ processed_count' = processed_count + 1
    /\ idx' = idx + 1
    /\ price_data' = NoData
    /\ pc' = "asset"
    /\ UNCHANGED orchFrame
    /\ UNCHANGED <<orch, analysis_mode, conn, run_id, analysis_runs, active_cryptos, tfi,
                   signals, total_trends_stored, total_signals_detected, asset_writes,
                   raised, cancelled, statusCode>>

\* lines 755-776
EC2Close ==
    /\ orch = "ec2" /\ pc = "close"
    /\ conn' = "closed"
    /\ statusCode' = 0
    /\ pc' = "done"
    /\ UNCHANGED orchFrame
    /\ UNCHANGED <<orch, analysis_mode, run_id, analysis_runs, active_cryptos, idx, tfi,
                   price_data, signals, processed_count, total_trends_stored,
                   total_signals_detected, asset_writes, raised, cancelled>>

\* lines 778-781: the outer except returns 1; the connection is not closed
EC2Except ==
    /\ orch = "ec2" /\ pc = "except"
    /\ statusCode' = 1
    /\ pc' = "done"
    /\ UNCHANGED orchFrame
    /\ UNCHANGED <<orch, analysis_mode, conn, run_id, analysis_runs, active_cryptos, idx,
                   tfi, price_data, signals, processed_count, total_trends_stored,
                   total_signals_detected, asset_writes, raised, cancelled>>

\* A cancellation signal while the assets are processed.  run_analysis
\* installs no handler, catches only Exception and has no finally block: the
\* interrupt leaves the function where it is.
EC2Cancel ==
    /\ orch = "ec2" /\ InAsset /\ ~cancelled
    /\ cancelled' = TRUE
    /\ pc' = "killed"
    /\ UNCHANGED orchFrame
    /\ UNCHANGED <<orch, analysis_mode, conn, run_id, analysis_runs, active_cryptos, idx,
                   tfi, price_data, signals, processed_count, total_trends_stored,
                   total_signals_detected, asset_writes, raised, statusCode>>

EC2Next ==
    \/ EC2CheckEnv
    \/ EC2Connect
    \/ EC2GetActiveCryptocurrencies
    \/ EC2GetPriceData
    \/ EC2LoopEnd
    \/ EC2Trend
    \/ EC2Detect
    \/ EC2StoreSignalEvent
    \/ EC2Count
    \/ EC2Close
    \/ EC2Except
    \/ EC2Cancel

----------------------------------------------------------------------------
\* The analysis of one asset (SpecAnalyze).  Time is counted in hours.
\* Prices are whole numbers; a percentage, a ratio and a confidence are kept
\* as the fraction num / den the code computes, den > 0.

HoursPerDay == 24

Max(a, b) == IF a >= b THEN a ELSE b

Fraction(num, den) == [num |-> num, den |-> den]

\* ((b - a) / a) * 100
PercentChange(a, b) == Fraction((b - a) * 100, a)

\* x < k, x > k, x <= k, x >= k for a fraction x and a whole number k
FracLT(x, k) == x.num < k * x.den
FracGT(x, k) == x.num > k * x.den
FracLE(x, k) == x.num <= k * x.den
FracGE(x, k) == x.num >= k * x.den

\* the fraction left as it is, where the code takes min(x, 1.0)
FracUnbounded(x) == x

\* min(x, 1.0), and max(x, 0.0)
FracMin1(x) == IF x.num > x.den THEN Fraction(x.den, x.den) ELSE x
FracMax0(x) == IF x.num < 0 THEN Fraction(0, x.den) ELSE x

\* SELECT ... WHERE timestamp >= now - days ORDER BY timestamp ASC, and the
\* list comprehensions [p for p in price_data if p['timestamp'] >= cutoff]
SinceCutoff(bars, cutoff) == SelectSeq(bars, LAMBDA b : b.timestamp >= cutoff)

LambdaReadDays == 30
EC2ReadDays == 180

LambdaRead(bars, now) == SinceCutoff(bars, now - LambdaReadDays * HoursPerDay)
EC2Read(bars, now) == SinceCutoff(bars, now - EC2ReadDays * HoursPerDay)

\* the dict a trend classifier returns
TrendResult(crypto_id, timeframe, trend_type, confidence, filtered_data) ==
    [crypto_id |-> crypto_id,
     timeframe |-> timeframe,
     trend_type |-> trend_type,
     confidence |-> confidence,
     start_time |-> filtered_data[1].timestamp,
     end_time |-> filtered_data[Len(filtered_data)].timestamp,
     price_change_percent |-> PercentChange(filtered_data[1].price_usd,
                                            filtered_data[Len(filtered_data)].price_usd),
     data_points |-> Len(filtered_data)]

\* ---- TrendAnalyzer (Lambda)

\* _classify_trend_improved, lines 139-146
ClassifyTrendImproved(price_change_percent) ==
    IF FracLT(price_change_percent, 1) /\ FracGT(price_change_percent, -1) THEN "sideways"
    ELSE IF FracGT(price_change_percent, 5) THEN "uptrend"
    ELSE IF FracLT(price_change_percent, -5) THEN "downtrend"
    ELSE "sideways"

\* lines 153-158, in thousandths
SignificanceBoost(p_value) ==
    IF p_value < 50 THEN 200 ELSE IF p_value < 100 THEN 100 ELSE 0

\* lines 161: min(volatility / 100, 0.3), in thousandths
VolatilityPenalty(volatility) == Min(volatility, 300)

\* _classify_trend_improved, lines 148-165.  linregress and numpy give
\* r_squared in [0, 1], p_value in [0, 1] and volatility >= 0 (stats, in
\* thousandths; stats.volatility is volatility / 100).
ImprovedConfidence(stats) ==
    FracMax0(FracMin1(Fraction(stats.r_squared + SignificanceBoost(stats.p_value)
                                   - VolatilityPenalty(stats.volatility), 1000)))

\* TrendAnalyzer.analyze_trend (lines 21-86): <<>> stands for None
TrendAnalyzerAnalyzeTrend(data, timeframe, crypto_id, now, stats) ==
    LET filtered_data ==
            SinceCutoff(data, now - LambdaCutoffDays(timeframe) * HoursPerDay)
    IN  IF Len(filtered_data) < MinDataPoints(timeframe) THEN <<>>
        \* line 57 divides by prices[0]; the exception is caught (lines 84-86)
        ELSE IF filtered_data[1].price_usd = 0 THEN <<>>
        ELSE <<TrendResult(crypto_id, timeframe,
                           ClassifyTrendImproved(
                               PercentChange(filtered_data[1].price_usd,
                                             filtered_data[Len(filtered_data)].price_usd)),
                           ImprovedConfidence(stats), filtered_data)>>

\* ---- analyze_trend (EC2, legacy mode)

\* lines 164-171
LegacyTrendType(price_change_percent) ==
    IF FracLT(price_change_percent, 1) /\ FracGT(price_change_percent, -1) THEN "sideways"
    ELSE IF FracGT(price_change_percent, 5) THEN "uptrend"
    ELSE IF FracLT(price_change_percent, -5) THEN "downtrend"
    ELSE "sideways"

\* lines 177-181, in thousandths
TimeframeBoost(timeframe) ==
    CASE timeframe = "7d" -> 100
      [] timeframe = "14d" -> 200
      [] timeframe = "30d" -> 300
      [] OTHER -> 0

\* lines 174-196
LegacyConfidence(stats, timeframe) ==
    FracMax0(FracMin1(Fraction(stats.r_squared + TimeframeBoost(timeframe)
                                   + SignificanceBoost(stats.p_value)
                                   - VolatilityPenalty(stats.volatility), 1000)))

\* analyze_trend (lines 133-216)
\* line 159 divides by prices[0] and nothing in analyze_trend catches
LegacyRaises(data, timeframe, now) ==
    LET filtered_data ==
            SinceCutoff(data, now - TimeframeDays(timeframe) * HoursPerDay)
    IN  Len(filtered_data) >= 3 /\ filtered_data[1].price_usd = 0

LegacyAnalyzeTrend(data, timeframe, crypto_id, now, stats) ==
    LET filtered_data ==
            SinceCutoff(data, now - TimeframeDays(timeframe) * HoursPerDay)
    IN  IF Len(filtered_data) < 3 \/ LegacyRaises(data, timeframe, now) THEN <<>>
        ELSE <<TrendResult(crypto_id, timeframe,
                           LegacyTrendType(
                               PercentChange(filtered_data[1].price_usd,
                                             filtered_data[Len(filtered_data)].price_usd)),
                           LegacyConfidence(stats, timeframe), filtered_data)>>

\* ---- ConfidenceModel (EC2, advanced mode).  Component scores are in
\* three-hundredths, the weighted sum in three-thousandths, the adjusted sum
\* in thirty-thousandths.  An indicator value is [tag, value] with tag "none"
\* (None), "nan" (every comparison with it is false) or "value".

NoValue == [tag |-> "none", value |-> 0]
NaNValue == [tag |-> "nan", value |-> 0]
Value(v) == [tag |-> "value", value |-> v]

\* a < k and a > k of Python floats, false for NaN
IsLT(a, k) == a.tag = "value" /\ a.value < k
IsGT(a, k) == a.tag = "value" /\ a.value > k
IsGE(a, k) == a.tag = "value" /\ a.value >= k
IsLE(a, k) == a.tag = "value" /\ a.value <= k

\* lines 48-58
TrendStrengthScore(adx_value) ==
    IF adx_value.tag = "none" THEN 150
    ELSE IF IsLT(adx_value, 20) THEN 0
    ELSE IF IsLT(adx_value, 25) THEN 75
    ELSE IF IsLT(adx_value, 40) THEN 150 + (adx_value.value - 25) * 10
    ELSE 300

\* lines 63-74
MomentumScore(macd_histogram_percentile) ==
    IF macd_histogram_percentile.tag = "none" THEN 150
    ELSE IF IsGT(macd_histogram_percentile, 80) \/ IsLT(macd_histogram_percentile, 20) THEN 270
    ELSE IF IsGT(macd_histogram_percentile, 70) \/ IsLT(macd_histogram_percentile, 30) THEN 210
    ELSE IF IsGT(macd_histogram_percentile, 60) \/ IsLT(macd_histogram_percentile, 40) THEN 150
    ELSE 90

\* lines 79-99
VolatilityScore(bollinger_bandwidth_percentile, signal_type) ==
    IF bollinger_bandwidth_percentile.tag = "none" THEN 150
    ELSE IF signal_type \in {"squeeze_breakout", "bollinger_breakout"}
         THEN IF IsLT(bollinger_bandwidth_percentile, 10) THEN 300
              ELSE IF IsLT(bollinger_bandwidth_percentile, 25) THEN 240
              ELSE IF IsLT(bollinger_bandwidth_percentile, 50) THEN 150
              ELSE 90
    ELSE IF IsGE(bollinger_bandwidth_percentile, 30) /\ IsLE(bollinger_bandwidth_percentile, 70) THEN 240
    ELSE IF IsGE(bollinger_bandwidth_percentile, 20) /\ IsLE(bollinger_bandwidth_percentile, 80) THEN 180
    ELSE 120

\* lines 104-116; recent_price_pvalue in thousandths
NoiseScore(recent_price_pvalue) ==
    IF recent_price_pvalue.tag = "none" THEN 150
    ELSE IF IsLT(recent_price_pvalue, 10) THEN 300
    ELSE IF IsLT(recent_price_pvalue, 50) THEN 240
    ELSE IF IsLT(recent_price_pvalue, 100) THEN 180
    ELSE IF IsLT(recent_price_pvalue, 200) THEN 120
    ELSE 60

\* _apply_signal_adjustments (lines 139-159): the factor, in tenths
SignalAdjustment(signal_type, adx_value, macd_histogram_percentile) ==
    IF signal_type \in {"golden_cross", "death_cross"}
    THEN IF TrendStrengthScore(adx_value) > 210 THEN 11 ELSE 10
    ELSE IF signal_type \in {"macd_bullish", "macd_bearish"}
    THEN IF MomentumScore(macd_histogram_percentile) < 90 THEN 8 ELSE 10
    ELSE IF signal_type \in {"rsi_oversold", "rsi_overbought"}
    THEN IF TrendStrengthScore(adx_value) < 90 THEN 7 ELSE 10
    ELSE 10

\* lines 121-130, before the clamp of line 133
WeightedConfidence(adx_value, macd_histogram_percentile, bollinger_bandwidth_percentile, recent_price_pvalue, signal_type) ==
    Fraction((4 * TrendStrengthScore(adx_value)
                + 3 * MomentumScore(macd_histogram_percentile)
                + 2 * VolatilityScore(bollinger_bandwidth_percentile, signal_type)
                + NoiseScore(recent_price_pvalue))
               * SignalAdjustment(signal_type, adx_value, macd_histogram_percentile),
             30000)

\* ConfidenceModel.calculate_confidence(...)['overall_confidence']
CalculateConfidence(adx_value, macd_histogram_percentile, bollinger_bandwidth_percentile, recent_price_pvalue, signal_type) ==
    FracMax0(FracMin1(WeightedConfidence(adx_value, macd_histogram_percentile,
                                         bollinger_bandwidth_percentile,
                                         recent_price_pvalue, signal_type)))

\* ---- analyze_trend_advanced (EC2, advanced mode)

SMAPeriod == 50
EMAPeriod == 20

\* pandas_ta.ema(close, length): the mean of the first length closes, then
\* ema = (2 * close + (length - 1) * ema) / (length + 1) for every later
\* close.  The value is kept in thousandths, rounded down at every step,
\* which is within 0.011 of the float the library returns.
EMAScale == 1000

RECURSIVE EMAFrom(_, _, _)
EMAFrom(closes, i, ema) ==
    IF i > Len(closes) THEN ema
    ELSE EMAFrom(closes, i + 1,
                 (2 * closes[i] * EMAScale + (EMAPeriod - 1) * ema) \div (EMAPeriod + 1))

CalculateEMA(closes) ==
    EMAFrom(closes, EMAPeriod + 1,
            (SeqSum(SubSeq(closes, 1, EMAPeriod)) * EMAScale) \div EMAPeriod)

\* current_price > sma_current and ema_current > sma_current, and so on
\* (lines 352-358); sma_current is the mean of the last SMAPeriod closes, the
\* comparison is made on SMAPeriod times each side.  Both averages exist
\* once there are MinIndicatorBars bars, so the branch of lines 359-366 is
\* never taken.
AdvancedTrendType(closes) ==
    LET current_price == closes[Len(closes)]
        sma_sum == SeqSum(LastK(closes, SMAPeriod))
        ema_current == CalculateEMA(closes)
    IN  IF /\ current_price * SMAPeriod > sma_sum
           /\ ema_current * SMAPeriod > sma_sum * EMAScale
        THEN "uptrend"
        ELSE IF /\ current_price * SMAPeriod < sma_sum
                /\ ema_current * SMAPeriod < sma_sum * EMAScale
        THEN "downtrend"
        ELSE "sideways"

\* analyze_trend_advanced (lines 302-400)
AnalyzeTrendAdvanced(data, timeframe, crypto_id, now, adx_current) ==
    LET filtered_df ==
            SinceCutoff(data, now - TimeframeDays(timeframe) * HoursPerDay)
        closes == [i \in 1..Len(data) |-> data[i].price_usd]
        trend_type == AdvancedTrendType(closes)
    IN  IF Len(data) < MinIndicatorBars THEN <<>>
        ELSE IF Len(filtered_df) < 3 THEN <<>>
        ELSE <<TrendResult(crypto_id, timeframe, trend_type,
                           CalculateConfidence(adx_current, NoValue, NoValue, NoValue,
                                               trend_type),
                           filtered_df)>>

\* ---- SignalDetector (Lambda).  detected_at of every signal is
\* datetime.now(timezone.utc), the time of the analysis.

Zero == Fraction(0, 1)

\* x + y, and x > y, of two fractions
RECURSIVE GCD(_, _)
GCD(a, b) == IF b = 0 THEN a ELSE GCD(b, a % b)

\* the same number in lowest terms
Reduced(x) ==
    LET g == GCD(Abs(x.num), x.den)
    IN  Fraction(x.num \div g, x.den \div g)

FracAdd(x, y) ==
    IF x.num = 0 THEN y
    ELSE IF y.num = 0 THEN x
    ELSE LET a == Reduced(x)
             b == Reduced(y)
         IN  Reduced(Fraction(a.num * b.den + b.num * a.den, a.den * b.den))

FracGreater(x, y) == x.num * y.den > y.num * x.den

FracAbs(x) == Fraction(Abs(x.num), x.den)

\* x / k for a whole number k > 0
FracDiv(x, k) == Fraction(x.num, x.den * k)

Prices(data) == [i \in 1..Len(data) |-> data[i].price_usd]
Volumes(data) == [i \in 1..Len(data) |-> data[i].volume_24h]

\* the metadata numbers the quality thresholds are about
NoMetadata ==
    [pump_percent |-> Zero, dump_percent |-> Zero,
     downtrend_percent |-> Zero, recovery_percent |-> Zero]

\* the dict a detector appends
DetectedSignal(crypto_id, signal_type, detected_at, confidence, volume_spike_ratio, metadata) ==
    [crypto_id |-> crypto_id, signal_type |-> signal_type, detected_at |-> detected_at,
     confidence |-> confidence, volume_spike_ratio |-> volume_spike_ratio,
     metadata |-> metadata]

\* SignalDetector.__init__ (lines 11-33)
pump_price_increase_threshold == 30
dump_price_decrease_threshold == 20
bottom_recovery_threshold == 8
volume_spike_threshold == 5
parabolic_min_rise == 50
parabolic_min_increasing_changes == 3
capitulation_downtrend_threshold == 15
capitulation_drop_threshold == 25

\* _detect_pump_and_dump_improved (lines 83-149)
DetectPumpAndDumpImproved(data, crypto_id, now) ==
    IF Len(data) < 24 THEN <<>>
    ELSE LET recent_data == LastK(data, 24)
             prices == Prices(recent_data)
             volumes == Volumes(recent_data)
             pump_start == SeqMin(Slice(prices, 0, 12))
             pump_peak == SeqMax(Slice(prices, 0, 12))
             dump_end == SeqMin(Slice(prices, 12, 24))
             pump_percent == PercentChange(pump_start, pump_peak)
             dump_percent == PercentChange(pump_peak, dump_end)
             pump_volumes == Slice(volumes, 0, 12)
             volume_spike_ratio ==
                 IF SeqSum(pump_volumes) > 0
                 THEN Fraction(SeqMax(pump_volumes) * 12, SeqSum(pump_volumes))
                 ELSE Fraction(1, 1)
         IN  \* a division by zero is caught at line 147
             IF pump_start = 0 \/ pump_peak = 0 THEN <<>>
             ELSE IF /\ FracGT(pump_percent, pump_price_increase_threshold)
                     /\ FracLT(dump_percent, -dump_price_decrease_threshold)
             THEN <<DetectedSignal(crypto_id, "pump_and_dump", now,
                        FracMin1(FracDiv(FracAdd(pump_percent, FracAbs(dump_percent)), 100)),
                        volume_spike_ratio,
                        [NoMetadata EXCEPT !.pump_percent = pump_percent,
                                           !.dump_percent = dump_percent])>>
             ELSE <<>>

\* week_ago_prices = price_data[-14:-7] and recent_prices = price_data[-7:]
WeekTrend(data) ==
    PercentChange(data[Len(data) - 13].price_usd, data[Len(data) - 7].price_usd)

RecentTrend(data) ==
    PercentChange(data[Len(data) - 6].price_usd, data[Len(data)].price_usd)

\* week_ago_prices[0] or recent_prices[0] is 0: the division raises and the
\* detector returns [] (lines 194-196, 349-351)
WeekDivisionRaises(data) ==
    data[Len(data) - 13].price_usd = 0 \/ data[Len(data) - 6].price_usd = 0

\* _detect_bottomed_out_improved (lines 151-195)
DetectBottomedOutImproved(data, crypto_id, now) ==
    IF Len(data) < 14 \/ WeekDivisionRaises(data) THEN <<>>
    ELSE IF /\ FracLT(WeekTrend(data), -10)
            /\ FracGT(RecentTrend(data), bottom_recovery_threshold)
    THEN <<DetectedSignal(crypto_id, "bottomed_out", now,
               FracMin1(FracDiv(FracAdd(FracAbs(WeekTrend(data)), RecentTrend(data)), 50)),
               Zero,
               [NoMetadata EXCEPT !.downtrend_percent = WeekTrend(data),
                                  !.recovery_percent = RecentTrend(data)])>>
    ELSE <<>>

\* _detect_volume_anomalies_improved (lines 197-243): avg_volume is the mean
\* of the 6 volumes before the last one
DetectVolumeAnomaliesImproved(data, crypto_id, now) ==
    IF Len(data) < 7 THEN <<>>
    ELSE LET volumes == Volumes(LastK(data, 7))
             baseline_sum == SeqSum(Slice(volumes, 0, 6))
             spike_volume == volumes[7]
         IN  IF baseline_sum > 0 /\ spike_volume * 6 > baseline_sum * volume_spike_threshold
             THEN <<DetectedSignal(crypto_id, "volume_anomaly", now,
                        FracMin1(Fraction(spike_volume * 6, baseline_sum * 10)),
                        Fraction(spike_volume * 6, baseline_sum),
                        NoMetadata)>>
             ELSE <<>>

\* price_changes of lines 266-270
PriceChanges(recent_prices) ==
    [i \in 1..(Len(recent_prices) - 1) |-> PercentChange(recent_prices[i], recent_prices[i + 1])]

RECURSIVE FracSum(_)
FracSum(s) == IF s = <<>> THEN Zero ELSE FracAdd(Head(s), FracSum(Tail(s)))

\* _detect_parabolic_rise_improved (lines 245-299)
DetectParabolicRiseImproved(data, crypto_id, now) ==
    IF Len(data) < 10 THEN <<>>
    \* a close of 0 before the last one: line 270 raises, caught at line 300
    ELSE IF \E i \in 1..9 : LastK(data, 10)[i].price_usd = 0 THEN <<>>
    ELSE LET price_changes == PriceChanges(Prices(LastK(data, 10)))
             increasing_changes ==
                 Cardinality({i \in 2..Len(price_changes) :
                                 FracGreater(price_changes[i], price_changes[i - 1])})
             total_rise == FracSum(price_changes)
         IN  IF /\ increasing_changes >= parabolic_min_increasing_changes
                /\ FracGT(total_rise, parabolic_min_rise)
             THEN <<DetectedSignal(crypto_id, "parabolic_rise", now,
                        FracMin1(FracDiv(total_rise, 100)), Zero, NoMetadata)>>
             ELSE <<>>

\* _detect_capitulation_drop_improved (lines 301-351)
DetectCapitulationDropImproved(data, crypto_id, now) ==
    IF Len(data) < 14 \/ WeekDivisionRaises(data) THEN <<>>
    ELSE IF /\ FracLT(WeekTrend(data), -capitulation_downtrend_threshold)
            /\ FracLT(RecentTrend(data), -capitulation_drop_threshold)
    THEN <<DetectedSignal(crypto_id, "capitulation_drop", now,
               FracMin1(FracDiv(FracAdd(FracAbs(WeekTrend(data)),
                                        FracAbs(RecentTrend(data))), 100)),
               Zero,
               [NoMetadata EXCEPT !.downtrend_percent = WeekTrend(data)])>>
    ELSE <<>>

\* SignalDetector.detect_signals (lines 35-81); the SELECT returned the rows
\* oldest first, so sorted() leaves them as they are
DetectSignals(data, crypto_id, now) ==
    IF Len(data) < MinBars THEN <<>>
    ELSE DetectPumpAndDumpImproved(data, crypto_id, now)
         \o DetectBottomedOutImproved(data, crypto_id, now)
         \o DetectVolumeAnomaliesImproved(data, crypto_id, now)
         \o DetectParabolicRiseImproved(data, crypto_id, now)
         \o DetectCapitulationDropImproved(data, crypto_id, now)

\* ---- the analysis of one asset as a state machine

MaxRuns == 2
ClockStep == 12
MaxHoursLater == 24

\* the time of the newest bar, and of the first analysis
TLast == 60 * HoursPerDay

\* n bars, spacing hours apart, the newest at TLast: the bars hump_age
\* spacings old and older close at base + hump, the newer ones at base, the
\* newest at base + delta; the newest volume is 6 times the others if spike
TrendBars(n, spacing, base, delta, hump, hump_age, spike) ==
    [i \in 1..n |->
        [timestamp |-> TLast - (n - i) * spacing,
         price_usd |-> IF i = n THEN base + delta
                       ELSE IF n - i >= hump_age THEN base + hump
                       ELSE base,
         volume_24h |-> IF i = n /\ spike THEN 6 ELSE 1]]

BarSeries ==
    {TrendBars(n, spacing, base, delta, hump, hump_age, spike) :
        n \in {14, 16, 50}, spacing \in {4, 24}, base \in {100, 200},
        delta \in {-12, -6, 0, 6, 9, 12}, hump \in {0, 100}, hump_age \in {9, 18},
        spike \in BOOLEAN}

\* outputs of scipy.stats.linregress and numpy on a slice, in thousandths:
\* r_squared and p_value lie in [0, 1], volatility / 100 is not negative
RegressionStats ==
    {[r_squared |-> 0, p_value |-> 500, volatility |-> 400],
     [r_squared |-> 600, p_value |-> 70, volatility |-> 100],
     [r_squared |-> 1000, p_value |-> 10, volatility |-> 0]}

\* outputs of pandas_ta.adx at the newest bar
ADXValues == {NoValue, NaNValue, Value(10), Value(22), Value(30), Value(45)}

\* a percentile of scipy.stats.percentileofscore, or None
Percentiles == {NoValue, Value(5), Value(15), Value(25), Value(45), Value(65), Value(75), Value(95)}

\* the signal types detect_signals_advanced passes to the confidence model
AdvancedSignalTypes ==
    {"macd_bullish", "macd_bearish", "squeeze_breakout", "rsi_oversold",
     "rsi_overbought", "golden_cross", "death_cross"}

\* a window of 12 bars an hour apart: the closes rise to peak over the first
\* half and fall over the second, the volumes of the first half end at
\* last_volume
PumpWindow(peak, last_volume, k) ==
    LET closes == <<100, 102, 105, 120, 150, peak, 180, 150, 120, 90, 80, 70>>
        volumes == <<1, 1, 1, 5, 5, last_volume, 5, 5, 5, 5, 5, 5>>
    IN  [i \in 1..(12 * k) |->
            [timestamp |-> TLast - (12 * k - i),
             price_usd |-> closes[(i + k - 1) \div k],
             volume_24h |-> volumes[(i + k - 1) \div k]]]

\* the windows given to detect_signals_in_window
Windows ==
    {PumpWindow(peak, last_volume, 1) : peak \in {140, 180}, last_volume \in {5, 30}}
    \cup {b \in BarSeries : Len(b) = MinBars}

\* the same rise and fall over 24 bars, every close and volume held for two bars
LongPumpSeries == {PumpWindow(peak, 5, 2) : peak \in {140, 180}}

\* closes whose changes from bar to bar grow, after lead flat bars, an hour
\* apart with equal volumes
RisingCloses == <<100, 102, 105, 110, 118, 130, 150, 180, 220, 280>>

ParabolicBars(lead) ==
    [i \in 1..(lead + Len(RisingCloses)) |->
        [timestamp |-> TLast - (lead + Len(RisingCloses) - i),
         price_usd |-> IF i <= lead THEN RisingCloses[1] ELSE RisingCloses[i - lead],
         volume_24h |-> 1]]

\* the series given to SignalDetector.detect_signals directly
ParabolicSeries == {ParabolicBars(lead) : lead \in {0, 4}}

\* n hourly bars closing at before up to bar change_at - 1, at after from
\* bar change_at on and at 50 from bar drop_at on
StepBars(n, change_at, before, after, drop_at) ==
    [i \in 1..n |->
        [timestamp |-> TLast - (n - i),
         price_usd |-> IF i < change_at THEN before ELSE IF i < drop_at THEN after ELSE 50,
         volume_24h |-> 1]]

\* histories around the 200 bars of the slow average: too short for it, with
\* the step inside its first window, and with the step after it; some fall
\* at bar 231
StepSeries ==
    {StepBars(n, change_at, before, after, drop_at) :
        n \in {199, 201, 260}, change_at \in {120, 180, 230},
        before \in {100, 200}, after \in {100, 200}, drop_at \in {231, 261}}

\* 16 daily bars with a volume spike or none on the newest, and the same
\* with one close of 0: at the analysis made at TLast bar 1 opens the 30d
\* slice, bar 2 the 14d slice of the EC2 runner and bar 9 the 7d slice
DailyBars == {TrendBars(16, HoursPerDay, 100, 6, 0, 9, spike) : spike \in BOOLEAN}

ZeroSeries ==
    {[b EXCEPT ![zero_at].price_usd = 0] : b \in DailyBars, zero_at \in {1, 2, 9}}

NoStats == [r_squared |-> 0, p_value |-> 0, volatility |-> 0]

AnInput(path, bars, stats, adx, numeric, signal_type, percentile) ==
    [path |-> path, bars |-> bars, stats |-> stats, adx |-> adx, numeric |-> numeric,
     signal_type |-> signal_type, percentile |-> percentile]

AnInputs ==
    {AnInput("lambda", b, st, NoValue, nu, "none", NoValue) :
        b \in BarSeries \cup LongPumpSeries, st \in RegressionStats,
        nu \in {"float", "decimal"}}
    \cup {AnInput("legacy", b, st, NoValue, "float", "none", NoValue) :
        b \in BarSeries, st \in RegressionStats}
    \cup {AnInput("advanced", b, NoStats, a, "float", "none", NoValue) :
        b \in BarSeries, a \in ADXValues}
    \cup {AnInput("window", w, NoStats, NoValue, "float", "none", NoValue) :
        w \in Windows}
    \cup {AnInput("advanced_signal", <<>>, NoStats, a, "float", t, pct) :
        a \in ADXValues, t \in AdvancedSignalTypes, pct \in Percentiles}
    \cup {AnInput("lambda", b, [r_squared |-> 600, p_value |-> 70, volatility |-> 100],
                   NoValue, "float", "none", NoValue) : b \in ZeroSeries \cup DailyBars}
    \cup {AnInput("legacy_asset", b, [r_squared |-> 600, p_value |-> 70, volatility |-> 100],
                   NoValue, "float", "none", NoValue) : b \in ZeroSeries \cup DailyBars}
    \cup {AnInput("ma_crossover", b, NoStats, a, "float", "none", NoValue) :
        b \in StepSeries, a \in {Value(10), Value(45)}}
    \cup {AnInput("detect_signals", b, NoStats, NoValue, "float", "none", NoValue) :
        b \in ParabolicSeries \cup LongPumpSeries}

AnInit ==
    /\ OrchIdle
    /\ ScanIdle
    /\ QryIdle
    /\ an_input \in AnInputs
    /\ an_now = TLast
    /\ an_trends = <<>>
    /\ an_signals = <<>>
    /\ trend_analysis = {}
    /\ signal_events = <<>>
    /\ an_runs = 0
    /\ an_first = NoTables
    /\ trend_created = {}
    /\ query_result = NoQuery

\* INSERT ... ON CONFLICT (crypto_id, timeframe, start_time) DO UPDATE
TrendKey(r) == <<r.crypto_id, r.timeframe, r.start_time>>

StoreTrendAnalysis(table, trend_result) ==
    {r \in table : TrendKey(r) # TrendKey(trend_result)} \cup {trend_result}

RECURSIVE StoreTrends(_, _)
StoreTrends(table, results) ==
    IF results = <<>> THEN table
    ELSE StoreTrends(StoreTrendAnalysis(table, Head(results)), Tail(results))

\* column created_at (DEFAULT CURRENT_TIMESTAMP) after the upsert of a
\* result: the Lambda upsert sets created_at = CURRENT_TIMESTAMP on a
\* conflict (database.py line 170), the EC2 upsert leaves it (lines 101-106)
StoreCreatedAt(created, trend_result, refresh) ==
    IF ~refresh /\ \E c \in created : c.key = TrendKey(trend_result) THEN created
    ELSE {c \in created : c.key # TrendKey(trend_result)}
         \cup {[key |-> TrendKey(trend_result), created_at |-> an_now]}

RECURSIVE StoreCreated(_, _, _)
StoreCreated(created, results, refresh) ==
    IF results = <<>> THEN created
    ELSE StoreCreated(StoreCreatedAt(created, Head(results), refresh), Tail(results), refresh)

CreatedAt(r) == (CHOOSE c \in trend_created : c.key = TrendKey(r)).created_at

\* the results of the loop over the timeframes, from position k on
RECURSIVE TrendResults(_, _, _)
TrendResults(input, data, k) ==
    IF k > Len(Timeframes) THEN <<>>
    ELSE (CASE input.path = "lambda" ->
                 TrendAnalyzerAnalyzeTrend(data, Timeframes[k], 1, an_now, input.stats)
            [] input.path = "legacy" ->
                 LegacyAnalyzeTrend(data, Timeframes[k], 1, an_now, input.stats)
            [] OTHER ->
                 AnalyzeTrendAdvanced(data, Timeframes[k], 1, an_now, input.adx))
         \o TrendResults(input, data, k + 1)

\* the bars the orchestrator reads for the asset, and the trend results of
\* its timeframes loop; an asset with fewer than MinBars bars is skipped
ReadBars(input) ==
    IF input.path = "lambda" THEN LambdaRead(input.bars, an_now)
    ELSE EC2Read(input.bars, an_now)

AssetTrendResults(input) ==
    IF Len(ReadBars(input)) < MinBars THEN <<>>
    ELSE TrendResults(input, ReadBars(input), 1)

\* a store that would replace the rows of the asset instead of adding to them
StoreSignalEventsReplacing(table, detected, numeric) ==
    IF numeric = "decimal" THEN table ELSE detected

\* INSERT INTO signal_events: a NUMERIC price makes the metadata hold Decimal
\* values, json.dumps raises on the first signal and nothing is stored
StoreSignalEvents(table, detected, numeric) ==
    IF numeric = "decimal" THEN table ELSE table \o detected

\* the tables as the first analysis left them
FirstTables(ta, se) ==
    IF an_runs = 0 THEN [trend_analysis |-> ta, signal_events |-> se] ELSE an_first

\* lambda_handler, the body of the loop over the assets (lines 58-112)
LambdaAnalyzeAsset ==
    /\ an_input.path = "lambda"
    /\ an_runs < MaxRuns
    /\ LET data == LambdaRead(an_input.bars, an_now)
           results == AssetTrendResults(an_input)
           detected == IF Len(data) < MinBars THEN <<>> ELSE DetectSignals(data, 1, an_now)
           ta == StoreTrends(trend_analysis, results)
           se == StoreSignalEvents(signal_events, detected, an_input.numeric)
       IN  /\ an_trends' = results
           /\ an_signals' = detected
           /\ trend_analysis' = ta
           /\ trend_created' = StoreCreated(trend_created, results, TRUE)
           /\ signal_events' = se
           /\ an_first' = FirstTables(ta, se)
    /\ an_runs' = an_runs + 1
    /\ UNCHANGED <<anFrame, an_input, an_now, query_result>>

\* run_analysis, the trend block of the loop over the assets (lines 706-725)
EC2AnalyzeTrends ==
    /\ an_input.path \in {"legacy", "advanced"}
    /\ an_runs < MaxRuns
    /\ LET results == AssetTrendResults(an_input)
           ta == StoreTrends(trend_analysis, results)
       IN  /\ an_trends' = results
           /\ trend_analysis' = ta
           /\ trend_created' = StoreCreated(trend_created, results, FALSE)
           /\ an_first' = FirstTables(ta, signal_events)
    /\ an_runs' = an_runs + 1
    /\ UNCHANGED <<anFrame, an_input, an_now, an_signals, signal_events, query_result>>

\* time passes between two analyses; the bars stay as they are
AdvanceClock ==
    /\ an_input.path # "none"
    /\ an_now + ClockStep <= TLast + MaxHoursLater
    /\ an_now' = an_now + ClockStep
    /\ an_trends' = <<>>
    /\ an_signals' = <<>>
    /\ UNCHANGED <<anFrame, an_input, trend_analysis, signal_events, an_runs, an_first,
                   trend_created, query_result>>

\* the signal dict detect_signals_in_window appends, from the numbers of the
\* window: confidence (lines 598, 621, 647), volume_spike_ratio and metadata
WindowSignal(signal) ==
    CASE signal.signal_type = "pump_and_dump" ->
            LET pump_percent == PercentChange(signal.m[1], signal.m[2])
                dump_percent == PercentChange(signal.m[2], signal.m[3])
            IN  DetectedSignal(signal.crypto_id, signal.signal_type, signal.detected_at,
                    FracMin1(FracDiv(FracAdd(pump_percent, FracAbs(dump_percent)), 120)),
                    Fraction(signal.m[4] * 6, signal.m[5]),
                    [NoMetadata EXCEPT !.pump_percent = pump_percent,
                                       !.dump_percent = dump_percent])
      [] signal.signal_type = "volume_anomaly" ->
            DetectedSignal(signal.crypto_id, signal.signal_type, signal.detected_at,
                FracMin1(Fraction(signal.m[1] * signal.m[3], signal.m[2] * 8)),
                Fraction(signal.m[1] * signal.m[3], signal.m[2]),
                NoMetadata)
      [] OTHER ->
            LET downtrend == PercentChange(signal.m[1], signal.m[2])
                recovery == PercentChange(signal.m[3], signal.m[4])
            IN  DetectedSignal(signal.crypto_id, signal.signal_type, signal.detected_at,
                    FracMin1(FracDiv(FracAdd(FracAbs(downtrend), recovery), 40)),
                    Zero,
                    [NoMetadata EXCEPT !.downtrend_percent = downtrend,
                                       !.recovery_percent = recovery])

WindowSignals(detected) == [i \in 1..Len(detected) |-> WindowSignal(detected[i])]

\* detect_signals_in_window on one window of the scan, then the quality
\* gate and the store loop of run_analysis (lines 736-746)
EC2DetectInWindow ==
    /\ an_input.path = "window"
    /\ an_runs = 0
    /\ LET detected == DetectSignalsInWindow(an_input.bars, 1, 0)
           se == signal_events \o WindowSignals(QualitySignals(detected))
       IN  /\ an_signals' = WindowSignals(detected)
           /\ signal_events' = se
           /\ an_first' = FirstTables(trend_analysis, se)
    /\ an_runs' = an_runs + 1
    /\ UNCHANGED <<anFrame, an_input, an_now, an_trends, trend_analysis, trend_created,
                   query_result>>

\* the argument detect_signals_advanced gives the confidence model for a
\* signal of the type: the MACD signals come with the percentile of the
\* histogram, the squeeze breakout with the percentile of the bandwidth
AdvancedConfidence(input) ==
    CalculateConfidence(input.adx,
        IF input.signal_type \in {"macd_bullish", "macd_bearish"}
        THEN input.percentile ELSE NoValue,
        IF input.signal_type = "squeeze_breakout" THEN input.percentile ELSE NoValue,
        NoValue, input.signal_type)

\* the signal_type stored for a signal the confidence model knows as signal_type
StoredSignalType(signal_type) ==
    IF signal_type = "squeeze_breakout" THEN "bollinger_breakout" ELSE signal_type

\* detect_signals_advanced: one signals.append (lines 443-462, 479-496,
\* 511-529, 537-555) for a crossing at the newest bar, the signal passing
\* the quality gate and being stored
EC2ScoreAdvancedSignal ==
    /\ an_input.path = "advanced_signal"
    /\ an_runs = 0
    /\ LET detected == <<DetectedSignal(1, StoredSignalType(an_input.signal_type), TLast,
                                        AdvancedConfidence(an_input), Zero, NoMetadata)>>
           se == signal_events \o detected
       IN  /\ an_signals' = detected
           /\ signal_events' = se
           /\ an_first' = FirstTables(trend_analysis, se)
    /\ an_runs' = an_runs + 1
    /\ UNCHANGED <<anFrame, an_input, an_now, an_trends, trend_analysis, trend_created,
                   query_result>>

\* ---- run_analysis in legacy mode on one asset, exceptions included

\* the trend records of the timeframes from position k on, up to the first
\* analyze_trend that raises
RECURSIVE LegacyTrendsUntilRaise(_, _)
LegacyTrendsUntilRaise(input, k) ==
    IF k > Len(Timeframes) \/ LegacyRaises(ReadBars(input), Timeframes[k], an_now) THEN <<>>
    ELSE LegacyAnalyzeTrend(ReadBars(input), Timeframes[k], 1, an_now, input.stats)
         \o LegacyTrendsUntilRaise(input, k + 1)

LegacyTrendsRaise(input) ==
    \E k \in 1..Len(Timeframes) : LegacyRaises(ReadBars(input), Timeframes[k], an_now)

\* detect_signals_in_window divides by pump_start and pump_peak (lines 581,
\* 582) and by the first close of each half (lines 639, 640)
InWindowRaises(w) ==
    \/ /\ Len(w) >= 12
       /\ \/ SeqMin(Slice(Prices(w), 0, 6)) = 0
          \/ SeqMax(Slice(Prices(w), 0, 6)) = 0
    \/ Len(w) >= 14 /\ (w[1].price_usd = 0 \/ w[8].price_usd = 0)

\* some window of the scan (lines 233-241) raises
SlidingWindowRaises(data) ==
    \E k \in 1..Len(WindowSizes) :
        \E start_idx \in 0..(Len(data) - WindowSizes[k]) :
            /\ start_idx % WindowStep = 0
            /\ InWindowRaises(Slice(data, start_idx, start_idx + WindowSizes[k]))

\* the bars with their timestamps in half days, and a signal of the scan
\* with its detected_at in hours
HalfDayBars(data) ==
    [i \in 1..Len(data) |->
        [data[i] EXCEPT !.timestamp = @ \div (HoursPerDay \div HalfDaysPerDay)]]

ScanSignals(data) ==
    LET quality == QualitySignals(DetectSignalsSlidingWindow(HalfDayBars(data), 1))
    IN  [i \in 1..Len(quality) |->
            [WindowSignal(quality[i])
                EXCEPT !.detected_at = @ * (HoursPerDay \div HalfDaysPerDay)]]

\* the body of the loop over the assets (lines 699-753) in legacy mode: an
\* exception of analyze_trend or of the scan is caught at line 751, after
\* the upserts already made
EC2AnalyzeAsset ==
    /\ an_input.path = "legacy_asset"
    /\ an_runs = 0
    /\ LET data == ReadBars(an_input)
           results == IF Len(data) < MinBars THEN <<>> ELSE LegacyTrendsUntilRaise(an_input, 1)
           detected == IF \/ Len(data) < MinBars
                          \/ LegacyTrendsRaise(an_input)
                          \/ SlidingWindowRaises(data)
                       THEN <<>> ELSE ScanSignals(data)
           ta == StoreTrends(trend_analysis, results)
           se == signal_events \o detected
       IN  /\ an_trends' = results
           /\ an_signals' = detected
           /\ trend_analysis' = ta
           /\ trend_created' = StoreCreated(trend_created, results, FALSE)
           /\ signal_events' = se
           /\ an_first' = FirstTables(ta, se)
    /\ an_runs' = an_runs + 1
    /\ UNCHANGED <<anFrame, an_input, an_now, query_result>>

\* ---- the moving average crossover (technical_indicators.py)

\* calculate_sma, ta.sma(close, length): missing before bar length; the sum
\* of the window stands for the mean times the length
SMADefined(i, length) == i >= length

\* the sum of closes[lo..hi], by halves
RECURSIVE RangeSum(_, _, _)
RangeSum(closes, lo, hi) ==
    IF lo > hi THEN 0
    ELSE IF lo = hi THEN closes[lo]
    ELSE RangeSum(closes, lo, (lo + hi) \div 2) + RangeSum(closes, (lo + hi) \div 2 + 1, hi)

WindowSum(closes, i, length) == RangeSum(closes, i - length + 1, i)

\* fast_ma > slow_ma at bar i (line 106): a comparison with a missing value
\* is False
FastAbove(closes, i) ==
    /\ SMADefined(i, SMAPeriod)
    /\ SMADefined(i, LongHistoryBars)
    /\ WindowSum(closes, i, SMAPeriod) * LongHistoryBars
           > WindowSum(closes, i, LongHistoryBars) * SMAPeriod

\* the loop of lines 108-114 over the bars lo..hi of the series of
\* fast_above, by halves, in the order of the bars
RECURSIVE CrossoversIn(_, _, _, _, _)
CrossoversIn(above, lo, hi, was, now_is) ==
    IF lo > hi THEN <<>>
    ELSE IF lo = hi
         THEN (IF above[lo - 1] = was /\ above[lo] = now_is THEN <<lo>> ELSE <<>>)
    ELSE CrossoversIn(above, lo, (lo + hi) \div 2, was, now_is)
         \o CrossoversIn(above, (lo + hi) \div 2 + 1, hi, was, now_is)

\* detect_ma_crossover (lines 93-115), the crossovers by bar position
DetectMACrossover(closes) ==
    LET fast_above == [i \in 1..Len(closes) |-> FastAbove(closes, i)]
    IN  IF Len(closes) < 2 THEN [golden_cross |-> <<>>, death_cross |-> <<>>]
        ELSE [golden_cross |-> CrossoversIn(fast_above, 2, Len(closes), FALSE, TRUE),
              death_cross |-> CrossoversIn(fast_above, 2, Len(closes), TRUE, FALSE)]

\* the signals of block 4 of detect_signals_advanced (lines 533-556): the
\* most recent crossover of each kind, if SMA(200) is defined somewhere
MACrossoverSignals(data, crypto_id, adx_current) ==
    LET ma_crossovers == DetectMACrossover(Prices(data))
        SignalOf(cross_type, t) ==
            DetectedSignal(crypto_id, cross_type, data[t].timestamp,
                CalculateConfidence(adx_current, NoValue, NoValue, NoValue, cross_type),
                Zero, NoMetadata)
        Last(cross_type, positions) ==
            [k \in 1..Len(LastK(positions, 1)) |-> SignalOf(cross_type, LastK(positions, 1)[k])]
    IN  IF Len(data) < LongHistoryBars THEN <<>>
        ELSE Last("golden_cross", ma_crossovers.golden_cross)
             \o Last("death_cross", ma_crossovers.death_cross)

\* detect_signals_advanced on a series whose other indicators do not cross
EC2DetectMACrossover ==
    /\ an_input.path = "ma_crossover"
    /\ an_runs = 0
    /\ an_signals' = MACrossoverSignals(an_input.bars, 1, an_input.adx)
    /\ an_runs' = an_runs + 1
    /\ UNCHANGED <<anFrame, an_input, an_now, an_trends, trend_analysis, signal_events,
                   an_first, trend_created, query_result>>

\* ---- the query processor's reads of the two tables
\* (lambda_functions/query_processor/database.py)

\* filters.get('timeframe', '24h'), 'min_confidence' and 'limit' of a request
DefaultTimeframe == "24h"
RequestTimeframes == {"1h", "24h", "7d", "14d", "30d"}
MinConfidences == {Zero, Fraction(7, 10)}
Limits == {1, 10}
TrendIntents == {"uptrend", "downtrend"}
IntentTypes == TrendIntents \cup {"volume_spike"}

\* _get_timeframe_cutoff (lines 592-605), in hours before now
TimeframeCutoff(timeframe, now) ==
    CASE timeframe = "1h" -> now - 1
      [] timeframe = "24h" -> now - HoursPerDay
      [] timeframe = "7d" -> now - 7 * HoursPerDay
      [] timeframe = "30d" -> now - 30 * HoursPerDay
      [] OTHER -> now - HoursPerDay

\* confidence >= %s
ConfidenceAtLeast(confidence, min_confidence) ==
    confidence.num * min_confidence.den >= min_confidence.num * confidence.den

\* a query that would not compare the timeframe column
TimeframeIgnored(row_timeframe, timeframe) == TRUE

\* AND ta.timeframe = %s
TimeframeMatches(row_timeframe, timeframe) == row_timeframe = timeframe

\* the WHERE clause of _get_trend_analysis (lines 242-245)
TrendRowsMatching(trend_type, timeframe, min_confidence, now) ==
    {r \in trend_analysis :
        /\ r.trend_type = trend_type
        /\ ConfidenceAtLeast(r.confidence, min_confidence)
        /\ CreatedAt(r) >= TimeframeCutoff(timeframe, now)
        /\ TimeframeMatches(r.timeframe, timeframe)}

\* ORDER BY ta.created_at DESC, ta.confidence DESC
TrendRowPrecedes(r1, r2) ==
    \/ CreatedAt(r1) > CreatedAt(r2)
    \/ CreatedAt(r1) = CreatedAt(r2) /\ FracGreater(r1.confidence, r2.confidence)

\* the WHERE clause of _get_volume_anomalies (lines 394-396), as positions
\* of the table
SignalRowsMatching(timeframe, min_confidence, now) ==
    {i \in 1..Len(signal_events) :
        /\ signal_events[i].signal_type = "volume_anomaly"
        /\ ConfidenceAtLeast(signal_events[i].confidence, min_confidence)
        /\ signal_events[i].detected_at >= TimeframeCutoff(timeframe, now)}

\* ORDER BY se.detected_at DESC, se.volume_spike_ratio DESC
SignalRowPrecedes(i1, i2) ==
    \/ signal_events[i1].detected_at > signal_events[i2].detected_at
    \/ /\ signal_events[i1].detected_at = signal_events[i2].detected_at
       /\ FracGreater(signal_events[i1].volume_spike_ratio, signal_events[i2].volume_spike_ratio)

\* LIMIT %s: the first rows of the order, ties broken either way
LimitOf(matching, limit, Precedes(_, _)) ==
    {rows \in SUBSET matching :
        /\ Cardinality(rows) = IF Cardinality(matching) < limit THEN Cardinality(matching)
                               ELSE limit
        /\ \A r \in rows : \A o \in matching \ rows : ~Precedes(o, r)}

\* get_results_for_intent (lines 35-78) and log_query (lines 607-637) of one
\* request: a SELECT on trend_analysis or on signal_events, and an INSERT INTO
\* query_logs; neither table of the analysis is written
GetResultsForIntent ==
    /\ an_input.path \in {"lambda", "legacy_asset"}
    /\ an_input.bars \in DailyBars \cup ZeroSeries
    /\ an_runs > 0
    /\ \E intent_type \in IntentTypes, timeframe \in RequestTimeframes,
          min_confidence \in MinConfidences, limit \in Limits :
          \E rows \in IF intent_type \in TrendIntents
                      THEN LimitOf(TrendRowsMatching(intent_type, timeframe, min_confidence,
                                                     an_now), limit, TrendRowPrecedes)
                      ELSE {{signal_events[i] : i \in picked} :
                              picked \in LimitOf(SignalRowsMatching(timeframe, min_confidence,
                                                                    an_now),
                                                 limit, SignalRowPrecedes)} :
             query_result' = [intent_type |-> intent_type, timeframe |-> timeframe,
                              rows |-> rows]
    /\ UNCHANGED <<anFrame, an_input, an_now, an_trends, an_signals, trend_analysis,
                   signal_events, an_runs, an_first, trend_created>>


\* SignalDetector.detect_signals called on a series (lines 35-81)
SignalDetectorDetectSignals ==
    /\ an_input.path = "detect_signals"
    /\ an_runs = 0
    /\ an_signals' = DetectSignals(an_input.bars, 1, an_now)
    /\ an_runs' = an_runs + 1
    /\ UNCHANGED <<anFrame, an_input, an_now, an_trends, trend_analysis, signal_events,
                   an_first, trend_created, query_result>>

AnNext ==
    \/ GetResultsForIntent
    \/ LambdaAnalyzeAsset
    \/ EC2AnalyzeAsset
    \/ EC2DetectMACrossover
    \/ SignalDetectorDetectSignals
    \/ EC2AnalyzeTrends
    \/ EC2DetectInWindow
    \/ EC2ScoreAdvancedSignal
    \/ AdvanceClock

SpecAnalyze == AnInit /\ [][AnNext]_vars

----------------------------------------------------------------------------
\* lambda_handler of the query processor
\* (lambda_functions/query_processor/handler.py) on one request event.
\*
\* event.body: "absent" (no 'body' key), "null" ('body' is None), "invalid"
\*   (a string that is not JSON), "non_object" (JSON, or a value, that is not
\*   a dict), "object" (a dict)
\* event.query, the 'query' of the dict: "missing", "blank", "null",
\*   "number", "unknown" (text in which parse_intent finds no intent),
\*   "known" (text with an intent)
\* event.filters: "missing", "object", "non_object"
\* event.secret, event.connect: get_secret and psycopg.connect succeed

BodyKinds == {"absent", "null", "invalid", "non_object", "object"}
QueryKinds == {"missing", "blank", "null", "number", "unknown", "known"}
FilterKinds == {"missing", "object", "non_object"}

Events ==
    {[body |-> b, query |-> "missing", filters |-> "missing", secret |-> TRUE,
      connect |-> TRUE] : b \in BodyKinds \ {"object"}}
    \cup {[body |-> "object", query |-> q, filters |-> f, secret |-> se, connect |-> co] :
            q \in QueryKinds, f \in FilterKinds, se \in BOOLEAN, co \in BOOLEAN}

QryInit ==
    /\ OrchIdle
    /\ ScanIdle
    /\ AnIdle
    /\ q_event \in Events
    /\ q_pc = "body"
    /\ q_db_client = "unbound"
    /\ q_response = <<>>

\* a return inside the try block: the response, then the finally clause
Return(code) ==
    /\ q_response' = Append(q_response, code)
    /\ q_pc' = "finally"

\* an exception inside the try block: control goes to the except clause
Raise ==
    /\ q_response' = q_response
    /\ q_pc' = "except"

Continue(at) ==
    /\ q_response' = q_response
    /\ q_pc' = at

\* lines 23-39: if 'body' not in event
QryCheckBody ==
    /\ q_pc = "body"
    /\ IF q_event.body = "absent" THEN Return("MISSING_BODY") ELSE Continue("json")
    /\ UNCHANGED <<qryFrame, q_event, q_db_client>>

\* lines 42-63: json.loads of a str body; any other body is taken as it is
QryParseBody ==
    /\ q_pc = "json"
    /\ IF q_event.body = "invalid" THEN Return("INVALID_JSON") ELSE Continue("query")
    /\ UNCHANGED <<qryFrame, q_event, q_db_client>>

\* lines 66-83: body.get('query', '').strip(); None and a non-dict have no
\* get, None and a number have no strip
QryExtractQuery ==
    /\ q_pc = "query"
    /\ IF q_event.body # "object" THEN Raise
       ELSE IF q_event.query \in {"null", "number"} THEN Raise
       ELSE IF q_event.query \in {"missing", "blank"} THEN Return("EMPTY_QUERY")
       ELSE Continue("filters")
    /\ UNCHANGED <<qryFrame, q_event, q_db_client>>

\* lines 86-89: body.get('filters', {}) and its get
QryExtractFilters ==
    /\ q_pc = "filters"
    /\ IF q_event.filters = "non_object" THEN Raise ELSE Continue("secret")
    /\ UNCHANGED <<qryFrame, q_event, q_db_client>>

\* line 94: get_secret(os.environ['DB_SECRET_NAME'])
QryGetSecret ==
    /\ q_pc = "secret"
    /\ IF q_event.secret THEN Continue("connect") ELSE Raise
    /\ UNCHANGED <<qryFrame, q_event, q_db_client>>

\* lines 97-98: QueryParser() and DatabaseClient(db_secret), which raises if
\* the connection fails and leaves db_client unbound
QryConnect ==
    /\ q_pc = "connect"
    /\ IF q_event.connect
       THEN Continue("intent") /\ q_db_client' = "open"
       ELSE Raise /\ q_db_client' = q_db_client
    /\ UNCHANGED <<qryFrame, q_event>>

\* lines 101-120: parse_intent returns None when no intent scores
QryParseIntent ==
    /\ q_pc = "intent"
    /\ IF q_event.query = "unknown" THEN Return("UNSUPPORTED_INTENT") ELSE Continue("results")
    /\ UNCHANGED <<qryFrame, q_event, q_db_client>>

\* lines 123-167: get_results_for_intent and log_query catch their own
\* exceptions; the 200 response
QryRespond ==
    /\ q_pc = "results"
    /\ Return("OK")
    /\ UNCHANGED <<qryFrame, q_event, q_db_client>>

\* lines 169-197: except Exception
QryExcept ==
    /\ q_pc = "except"
    /\ Return("INTERNAL_ERROR")
    /\ UNCHANGED <<qryFrame, q_event, q_db_client>>

\* lines 199-205: finally
QryFinally ==
    /\ q_pc = "finally"
    /\ q_pc' = "done"
    /\ q_db_client' = IF q_db_client = "open" THEN "closed" ELSE q_db_client
    /\ UNCHANGED <<qryFrame, q_event, q_response>>

QryNext ==
    \/ QryCheckBody
    \/ QryParseBody
    \/ QryExtractQuery
    \/ QryExtractFilters
    \/ QryGetSecret
    \/ QryConnect
    \/ QryParseIntent
    \/ QryRespond
    \/ QryExcept
    \/ QryFinally

SpecQuery == QryInit /\ [][QryNext]_vars

----------------------------------------------------------------------------
Init ==
    /\ \/ orch = "lambda" /\ analysis_mode = "none" /\ pc = "connect"
       \/ orch = "ec2" /\ analysis_mode \in {"legacy", "advanced"} /\ pc = "check_env"
    /\ conn = "none"
    /\ run_id = 0
    /\ analysis_runs = NoRun
    /\ active_cryptos \in 0..MaxAssets
    /\ idx = 1
    /\ tfi = 1
    /\ price_data = NoData
    /\ signals = <<>>
    /\ processed_count = 0
    /\ total_trends_stored = 0
    /\ total_signals_detected = 0
    /\ asset_writes = <<>>
    /\ raised = FALSE
    /\ cancelled = FALSE
    /\ statusCode = -1
    /\ ScanIdle
    /\ AnIdle
    /\ QryIdle

Next == LambdaNext \/ EC2Next

Spec == Init /\ [][Next]_vars

----------------------------------------------------------------------------
\* Claims about the orchestrators (Spec)

Terminal == {"completed", "failed"}

RunCreated == analysis_runs.status # "none"

Returned == pc = "done" /\ ~cancelled

\* C1: every analysis_runs record that lambda_handler creates as 'running'
\* has moved to completed or failed exactly once when the handler returns,
\* whatever database statement failed on the way: it is never left
\* 'running' and receives one status write only.
C1_RunRecordTerminatedOnce ==
    (orch = "lambda" /\ Returned /\ RunCreated) =>
        /\ analysis_runs.status \in Terminal
        /\ analysis_runs.status_writes = 1

\* C2: no trend_analysis row and no signal_events row is written by a run
\* before an analysis_runs record (run_type trend_analysis, status running)
\* was created for the run, under either orchestrator and also when the
\* insert of the run record fails.
C2_RunRecordBeforeRows ==
    (total_trends_stored + total_signals_detected > 0) =>
        /\ RunCreated
        /\ analysis_runs.run_type = "trend_analysis"

\* C3: when a step of an asset raised, the run does not terminate: the later
\* assets of the list are attempted and the run ends with status completed.
C3_AssetExceptionRunCompletes ==
    (Returned /\ raised) =>
        /\ idx > active_cryptos
        /\ analysis_runs.status = "completed"

\* C4: within one run and one asset every trend upsert comes before the
\* first signal insert: no signal_events row of an asset is followed by a
\* trend_analysis row of that asset.
C4_TrendsBeforeSignals ==
    \A i, j \in 1..Len(asset_writes) :
        (i < j /\ asset_writes[i].crypto_id = asset_writes[j].crypto_id) =>
            ~(asset_writes[i].kind = "signal" /\ asset_writes[j].kind = "trend")

\* an asset with trend rows and signal rows written
C4_Witness ==
    /\ \E i \in 1..Len(asset_writes) : asset_writes[i].kind = "trend"
    /\ \E i \in 1..Len(asset_writes) : asset_writes[i].kind = "signal"
    /\ pc = "asset"

\* C5: the write of the final status of the run record comes after every
\* trend upsert and signal insert of the run: once the record is completed
\* or failed no step writes a trend_analysis or signal_events row.
C5_NoAssetWriteAfterTerminal ==
    [][analysis_runs.status \in Terminal =>
          /\ total_trends_stored' = total_trends_stored
          /\ total_signals_detected' = total_signals_detected
          /\ asset_writes' = asset_writes]_vars

\* a returned run, completed, with trend and signal rows written
C5_Witness ==
    /\ orch = "lambda" /\ pc = "done"
    /\ analysis_runs.status = "completed"
    /\ total_trends_stored > 0
    /\ total_signals_detected > 0

\* C6: after a cancellation signal during an asset the orchestrator stops,
\* marks the run record failed with reason "cancelled" and closes the
\* database connection.
C6_CancelledRunMarkedFailed ==
    (cancelled /\ pc \in {"done", "killed"}) =>
        /\ analysis_runs.status = "failed"
        /\ analysis_runs.error_message = "cancelled"
        /\ conn = "closed"

\* C9: the signal_events rows a run persists for an asset hold no two rows
\* of one signal_type with detected_at less than 3 days apart, in the Lambda
\* run and in both modes of the EC2 run.
C9_PersistedSignalsThreeDaysApart ==
    \A i, j \in 1..Len(asset_writes) :
        (/\ i < j
         /\ asset_writes[i].kind = "signal" /\ asset_writes[j].kind = "signal"
         /\ asset_writes[i].crypto_id = asset_writes[j].crypto_id
         /\ asset_writes[i].key = asset_writes[j].key) =>
            Abs(asset_writes[i].detected_at - asset_writes[j].detected_at)
                >= DedupDays * HalfDaysPerDay

----------------------------------------------------------------------------
\* Claims about detect_signals_sliding_window (SpecScan)

ThreeDays == DedupDays * HalfDaysPerDay

\* ISO calendar week (Monday to Sunday) of a time
IsoWeek(ts) == ts \div (7 * HalfDaysPerDay)

\* C7: in the list detect_signals_sliding_window returns, two distinct
\* signals of the same signal_type have detected_at at least 3 days apart.
C7_SameTypeThreeDaysApart ==
    scan_done =>
        \A i, j \in 1..Len(scan_output) :
            (i # j /\ scan_output[i].signal_type = scan_output[j].signal_type)
                => Abs(scan_output[i].detected_at - scan_output[j].detected_at) >= ThreeDays

\* C8: in the list detect_signals_sliding_window returns, at most 2 signals
\* of one (asset, signal_type) have their detected_at in one ISO week.
C8_AtMostTwoPerIsoWeek ==
    scan_done =>
        \A i \in 1..Len(scan_output) :
            Cardinality({j \in 1..Len(scan_output) :
                /\ scan_output[j].crypto_id = scan_output[i].crypto_id
                /\ scan_output[j].signal_type = scan_output[i].signal_type
                /\ IsoWeek(scan_output[j].detected_at) = IsoWeek(scan_output[i].detected_at)})
            <= WeeklyLimit

\* the candidate at position i of the pool is the earliest of its type
EarliestOfType(pool, i) ==
    \A k \in 1..Len(pool) :
        pool[k].signal_type = pool[i].signal_type => pool[i].detected_at <= pool[k].detected_at

KeptAt(unique, signal_type, detected_at) ==
    \E k \in 1..Len(unique) :
        unique[k].signal_type = signal_type /\ unique[k].detected_at = detected_at

\* C10: of two candidates of the same signal_type less than 3 days apart,
\* deduplication keeps the earlier and drops the later (stated for a pair
\* whose earlier candidate is the earliest of its type, which no other
\* candidate can displace).
C10_EarlierSurvives ==
    scan_done =>
        \A i, j \in 1..Len(scan_pool) :
            (/\ scan_pool[i].signal_type = scan_pool[j].signal_type
             /\ EarliestOfType(scan_pool, i)
             /\ scan_pool[i].detected_at < scan_pool[j].detected_at
             /\ scan_pool[j].detected_at - scan_pool[i].detected_at < ThreeDays)
            => /\ KeptAt(scan_unique, scan_pool[i].signal_type, scan_pool[i].detected_at)
               /\ ~KeptAt(scan_unique, scan_pool[j].signal_type, scan_pool[j].detected_at)

\* the orchestrator has just read an asset that has bars, but fewer than 14
ShortAssetRead ==
    /\ price_data' # price_data
    /\ price_data'.len > 0
    /\ price_data'.len < 14

\* C18: when an asset has fewer than 14 bars the orchestrator writes no
\* trend record and no signal event for it, does not count it as processed,
\* and goes on to the next asset.
C18_ShortAssetSkipped ==
    [][ShortAssetRead =>
            /\ asset_writes' = <<>>
            /\ total_trends_stored' = total_trends_stored
            /\ total_signals_detected' = total_signals_detected
            /\ processed_count' = processed_count
            /\ idx' = idx + 1
            /\ pc' = "asset"]_vars

\* the second asset had too few bars and was skipped after the first had
\* been processed and counted
C18_Witness ==
    /\ pc = "asset"
    /\ price_data.len > 0 /\ price_data.len < 14
    /\ idx = 3
    /\ processed_count = 1
    /\ asset_writes = <<>>

----------------------------------------------------------------------------
\* Claims about the analysis of one asset (SpecAnalyze)

\* the asset was analysed twice, the bars being the same both times
AnalysedTwice == an_runs >= 2

\* C11: an analysis run again on the same bars leaves the trend_analysis
\* table as the first analysis left it: the same keys (crypto_id, timeframe,
\* start_time) with the same trend_type, confidence and price_change_percent.
C11_RerunLeavesTrendsEqual ==
    AnalysedTwice => trend_analysis = an_first.trend_analysis

\* C12: an analysis run again on the same bars adds no row to signal_events.
C12_RerunAddsNoSignal ==
    AnalysedTwice => Len(signal_events) = Len(an_first.signal_events)

\* C13: every persisted pump_and_dump has pump_percent >= 50, dump_percent
\* <= -30 and volume_spike_ratio >= 3.0, every persisted volume_anomaly has
\* volume_spike_ratio >= 5.0, every persisted bottomed_out has
\* downtrend_percent <= -15 and recovery_percent >= 10.
C13_PersistedSignalsMeetQuality ==
    \A i \in 1..Len(signal_events) :
        LET signal == signal_events[i]
        IN  /\ signal.signal_type = "pump_and_dump" =>
                   /\ FracGE(signal.metadata.pump_percent, 50)
                   /\ FracLE(signal.metadata.dump_percent, -30)
                   /\ FracGE(signal.volume_spike_ratio, 3)
            /\ signal.signal_type = "volume_anomaly" =>
                   FracGE(signal.volume_spike_ratio, 5)
            /\ signal.signal_type = "bottomed_out" =>
                   /\ FracLE(signal.metadata.downtrend_percent, -15)
                   /\ FracGE(signal.metadata.recovery_percent, 10)

\* 0 <= c <= 1
InUnitInterval(c) == c.den > 0 /\ 0 <= c.num /\ c.num <= c.den

\* C14: every confidence stored in a trend record or in a signal event, by
\* any classifier or detector of either analysis mode, lies in [0, 1].
C14_ConfidenceInUnitInterval ==
    /\ \A r \in trend_analysis : InUnitInterval(r.confidence)
    /\ \A i \in 1..Len(signal_events) : InUnitInterval(signal_events[i].confidence)

\* a trend whose sum of the confidence terms is negative was stored with
\* confidence 0, next to a signal whose ratio exceeds 1 stored with 1
C14_Witness ==
    /\ an_input.stats.r_squared + SignificanceBoost(an_input.stats.p_value)
           < VolatilityPenalty(an_input.stats.volatility)
    /\ \E r \in trend_analysis : r.confidence.num = 0
    /\ \E i \in 1..Len(signal_events) :
           /\ signal_events[i].signal_type = "bottomed_out"
           /\ FracGT(FracAdd(FracAbs(signal_events[i].metadata.downtrend_percent),
                             signal_events[i].metadata.recovery_percent), 50)
           /\ signal_events[i].confidence.num = signal_events[i].confidence.den

\* C15: in every classification path a stored trend whose
\* price_change_percent exceeds +5 is never a downtrend, and one whose
\* price_change_percent is below -5 is never an uptrend.
C15_DirectionAgreesWithChange ==
    \A r \in trend_analysis :
        /\ FracGT(r.price_change_percent, 5) => r.trend_type # "downtrend"
        /\ FracLT(r.price_change_percent, -5) => r.trend_type # "uptrend"

\* the same asset with k added to every close
Shifts == {50, 100}

ShiftCloses(input, k) ==
    [input EXCEPT !.bars = [i \in 1..Len(input.bars) |->
                               [input.bars[i] EXCEPT !.price_usd = @ + k]]]

TrendTypes(results) == [i \in 1..Len(results) |-> <<results[i].timeframe, results[i].trend_type>>]

\* C16: adding a constant k to every close leaves the trend_type of every
\* timeframe unchanged.
C16_ShiftKeepsTrendType ==
    an_trends # <<>> =>
        \A k \in Shifts :
            TrendTypes(AssetTrendResults(ShiftCloses(an_input, k))) = TrendTypes(an_trends)

\* the length in days the name of a timeframe states
StatedDays(timeframe) ==
    CASE timeframe = "7d" -> 7
      [] timeframe = "14d" -> 14
      [] timeframe = "30d" -> 30

\* C17: the trend record of a timeframe T is computed over exactly the bars
\* with timestamp >= now - T, and its start_time is the timestamp of the
\* earliest of them.
C17_RecordCoversItsTimeframe ==
    \A i \in 1..Len(an_trends) :
        LET slice == SinceCutoff(an_input.bars,
                                 an_now - StatedDays(an_trends[i].timeframe) * HoursPerDay)
        IN  /\ an_trends[i].data_points = Len(slice)
            /\ an_trends[i].start_time = slice[1].timestamp

\* the window of the example: closes 100, 102, 105, 120, 150, 180 with
\* volumes 1, 1, 1, 5, 5, 5, then closes 180, 150, 120, 90, 80, 70 with
\* volumes 5
ExampleWindow == PumpWindow(180, 5, 1)

\* the same closes and volumes as 24 hourly bars, each held for two bars
ExampleSeries == PumpWindow(180, 5, 2)

PumpAndDumpEvents ==
    {i \in 1..Len(an_signals) : an_signals[i].signal_type = "pump_and_dump"}

\* C20: on the window of the example the pump_and_dump detector emits
\* exactly one pump_and_dump event, with pump_percent = 80, dump_percent
\* about -61 and volume_spike_ratio about 5.
C20_ExampleWindowEmitsOnePumpAndDump ==
    (an_input.bars \in {ExampleWindow, ExampleSeries} /\ an_runs > 0) =>
        /\ Cardinality(PumpAndDumpEvents) = 1
        /\ \A i \in PumpAndDumpEvents :
              /\ an_signals[i].metadata.pump_percent.num
                     = 80 * an_signals[i].metadata.pump_percent.den
              /\ FracGT(an_signals[i].metadata.dump_percent, -62)
              /\ FracLT(an_signals[i].metadata.dump_percent, -60)
              /\ FracGT(an_signals[i].volume_spike_ratio, 4)
              /\ FracLT(an_signals[i].volume_spike_ratio, 6)

----------------------------------------------------------------------------
\* Claims about the query processor (SpecQuery)

\* the error code the checks, applied in the stated order, give the event;
\* "any" where the statement names none
StatedCode(event) ==
    IF event.body \in {"absent", "null"} THEN "MISSING_BODY"
    ELSE IF event.body = "invalid" THEN "INVALID_JSON"
    ELSE IF event.body = "object" /\ event.query \in {"missing", "blank"} THEN "EMPTY_QUERY"
    ELSE IF event.body = "object" /\ event.query = "unknown" THEN "UNSUPPORTED_INTENT"
    ELSE "any"

\* C19: for every request event the query lambda_handler returns exactly one
\* structured response and never raises: MISSING_BODY for an event without a
\* body, INVALID_JSON for a body that is not valid JSON, EMPTY_QUERY for an
\* empty or blank query, UNSUPPORTED_INTENT for a query with no recognised
\* intent, the checks being applied in that order, and INTERNAL_ERROR for
\* any other failure.
C19_StructuredResponseInOrder ==
    q_pc = "done" /\ q_event # NoEvent =>
        /\ Len(q_response) = 1
        /\ StatedCode(q_event) # "any" => q_response[1] = StatedCode(q_event)

----------------------------------------------------------------------------
\* Claims of the last part: examples, the orchestrators' error paths, the
\* scan's coverage, the confidence model and the trend query

ParabolicRiseEvents ==
    {i \in 1..Len(an_signals) : an_signals[i].signal_type = "parabolic_rise"}

\* C21: on the 10-bar close series 100, 102, 105, 110, 118, 130, 150, 180,
\* 220, 280 detect_signals emits exactly one parabolic_rise event, with
\* confidence 1.0.
C21_ExampleSeriesEmitsOneParabolicRise ==
    (an_input.path = "detect_signals" /\ an_input.bars = ParabolicBars(0) /\ an_runs > 0) =>
        /\ Cardinality(ParabolicRiseEvents) = 1
        /\ \A i \in ParabolicRiseEvents :
              an_signals[i].confidence.num = an_signals[i].confidence.den

\* the bar of a series with the timestamp
BarAt(data, timestamp) == CHOOSE i \in 1..Len(data) : data[i].timestamp = timestamp

\* SMA(50) and SMA(200) are both defined at bars t - 1 and t
BothDefined(t) == t >= 2 /\ SMADefined(t - 1, SMAPeriod) /\ SMADefined(t - 1, LongHistoryBars)

\* SMA(50) <= SMA(200) at t - 1 and SMA(50) > SMA(200) at t, both defined
RealGoldenCross(closes, t) ==
    /\ BothDefined(t)
    /\ ~FastAbove(closes, t - 1)
    /\ FastAbove(closes, t)

\* SMA(50) >= SMA(200) at t - 1 and SMA(50) < SMA(200) at t, both defined
RealDeathCross(closes, t) ==
    /\ BothDefined(t)
    /\ WindowSum(closes, t - 1, SMAPeriod) * LongHistoryBars
          >= WindowSum(closes, t - 1, LongHistoryBars) * SMAPeriod
    /\ WindowSum(closes, t, SMAPeriod) * LongHistoryBars
          < WindowSum(closes, t, LongHistoryBars) * SMAPeriod

CrossoverRan == an_input.path = "ma_crossover" /\ an_runs > 0

\* C22: a golden_cross is reported at bar t only if SMA(50) and SMA(200) are
\* both defined at t - 1 and t, with SMA(50) <= SMA(200) at t - 1 and
\* SMA(50) > SMA(200) at t (symmetrically for death_cross); the first bar at
\* which SMA(200) is defined is never reported, and a series whose only real
\* crossing is a golden cross at t yields exactly one golden_cross, at t.
C22_CrossoverOnlyAtRealCrossing ==
    CrossoverRan =>
        LET closes == Prices(an_input.bars)
            bars == 2..Len(closes)
        IN  /\ \A k \in 1..Len(an_signals) :
                  LET t == BarAt(an_input.bars, an_signals[k].detected_at)
                  IN  /\ t # LongHistoryBars
                      /\ an_signals[k].signal_type = "golden_cross" => RealGoldenCross(closes, t)
                      /\ an_signals[k].signal_type = "death_cross" => RealDeathCross(closes, t)
            /\ \A t \in bars :
                  (/\ RealGoldenCross(closes, t)
                   /\ \A u \in bars \ {t} : ~RealGoldenCross(closes, u) /\ ~RealDeathCross(closes, u))
                  => DetectMACrossover(closes).golden_cross = <<t>>

\* the positions at which the run issues the statements of an asset or the
\* final update of the run record
IssuesStatements == InAsset \/ pc = "final_update"

\* C23: after a failed statement of one asset (the bar read in particular)
\* the transaction is rolled back and only that asset is skipped: the
\* statements of the following assets and the final run-status update are
\* issued on a usable connection.
C23_FailedStatementLeavesConnectionUsable ==
    IssuesStatements => conn # "aborted"

\* the statements the asset being processed issues when nothing raises:
\* one upsert for every timeframe that has a trend record, one insert for
\* every signal detected
AssetStatements ==
    Cardinality({k \in 1..Len(Timeframes) :
                    IF orch = "lambda" THEN LambdaAnalyzeTrend(price_data, Timeframes[k])
                    ELSE EC2AnalyzeTrend(analysis_mode, price_data, Timeframes[k])})
    + Len(IF orch = "lambda" THEN LambdaDetectSignals(price_data, idx)
          ELSE EC2DetectSignals(analysis_mode, price_data, idx))

\* the asset being processed got through all its statements
AssetFinishedClean == ~TooFewBars(price_data) /\ Len(asset_writes) = AssetStatements

\* C24: records_processed of a completed run is the number of active assets
\* with at least 14 bars whose trend and signal processing finished without
\* an exception: an asset is counted only if none of its trend upserts and
\* signal inserts raised, and the count is what the completing update writes.
C24_OnlyCleanAssetsCounted ==
    [][/\ processed_count' # processed_count =>
            AssetFinishedClean /\ processed_count' = processed_count + 1
       /\ (analysis_runs'.status = "completed" /\ analysis_runs.status # "completed") =>
            analysis_runs'.records_processed = processed_count]_vars

\* the slice of a timeframe as the orchestrator of the input cuts it
TimeframeSlice(timeframe) ==
    SinceCutoff(ReadBars(an_input),
                an_now - HoursPerDay * (IF an_input.path = "lambda"
                                        THEN LambdaCutoffDays(timeframe)
                                        ELSE TimeframeDays(timeframe)))

\* the slice is long enough for the analyser of the input
SliceSuffices(timeframe) ==
    Len(TimeframeSlice(timeframe))
        >= (IF an_input.path = "lambda" THEN MinDataPoints(timeframe) ELSE 3)

ZeroFirstClose(timeframe) ==
    SliceSuffices(timeframe) /\ TimeframeSlice(timeframe)[1].price_usd = 0

\* the asset was analysed once, at TLast, and no time has passed since
AssetAnalysed ==
    /\ an_input.path \in {"lambda", "legacy_asset"}
    /\ an_input.bars \in ZeroSeries \cup DailyBars
    /\ an_runs = 1
    /\ an_now = TLast

\* C25: if the first close of one timeframe's slice is 0, only that trend
\* record is skipped: every other timeframe with a long enough slice still
\* gets its record, and the signal detection of the asset still runs (the
\* volume spike on the newest bar is detected), in both orchestrators.
C25_ZeroFirstCloseSkipsOneRecord ==
    (AssetAnalysed /\ \E tf \in Range(Timeframes) : ZeroFirstClose(tf)) =>
        /\ \A tf \in Range(Timeframes) :
              (SliceSuffices(tf) /\ ~ZeroFirstClose(tf))
                  <=> \E i \in 1..Len(an_trends) : an_trends[i].timeframe = tf
        /\ an_input.bars[Len(an_input.bars)].volume_24h > 1 =>
              \E i \in 1..Len(an_signals) : an_signals[i].signal_type = "volume_anomaly"


\* C26: after any sequence of analysis runs and queries no stored
\* signal_events row is updated or deleted: every step leaves the rows
\* already stored in place, with their crypto_id, signal_type, detected_at,
\* confidence and metadata, and only adds rows after them.
C26_SignalEventsOnlyGrow ==
    [][/\ Len(signal_events') >= Len(signal_events)
       /\ \A i \in 1..Len(signal_events) : signal_events'[i] = signal_events[i]]_vars

\* a second analysis has added rows to those of the first, and a query has
\* been answered
SignalEventsGrewAndQueried ==
    /\ an_runs = MaxRuns
    /\ an_first.signal_events # <<>>
    /\ Len(signal_events) > Len(an_first.signal_events)
    /\ SubSeq(signal_events, 1, Len(an_first.signal_events)) = an_first.signal_events
    /\ query_result # NoQuery

\* C30: an uptrend or downtrend query returns only trend records whose
\* timeframe equals the request timeframe; the orchestrators write the
\* timeframes 7d, 14d and 30d only, so a trend query with the default request
\* timeframe 24h, or with 1h, returns nothing whatever is persisted.
C30_TrendQueryReturnsRequestTimeframeOnly ==
    query_result.intent_type \in TrendIntents =>
        /\ \A r \in query_result.rows : r.timeframe = query_result.timeframe
        /\ \A r \in trend_analysis : r.timeframe \in {"7d", "14d", "30d"}
        /\ query_result.timeframe \in {DefaultTimeframe, "1h"} => query_result.rows = {}

\* a trend query with the default timeframe came back empty although a
\* record of the queried trend type, created within the last day, is stored
DefaultTimeframeQueryEmpty ==
    /\ query_result.intent_type \in TrendIntents
    /\ query_result.timeframe = DefaultTimeframe
    /\ query_result.rows = {}
    /\ \E r \in trend_analysis :
          /\ r.trend_type = query_result.intent_type
          /\ CreatedAt(r) >= TimeframeCutoff(DefaultTimeframe, an_now)

\* a trend query with the timeframe of a stored record returned it
TrendQueryReturnedRows ==
    /\ query_result.intent_type \in TrendIntents
    /\ query_result.rows # {}

\* C27: on every exit path of an orchestrator run (normal completion, empty
\* asset list, or an exception raised outside the loop over the assets) the
\* connection the run opened is closed when the entry point returns, in
\* lambda_handler and in run_analysis alike.
ConnectionReleased == conn \in {"none", "closed"}

C27_ConnectionClosedOnEveryExit == pc = "done" => ConnectionReleased

\* C28: for every series of n >= 14 bars the sliding-window scan (window
\* sizes 7, 14 and 21, start index advancing by 3) places every bar in at
\* least one scanned window, and the most recent bar is the last bar of at
\* least one window, so that a volume spike on the latest bar is examined.
BarInWindow(i, win) == win.start_idx <= i /\ i < win.start_idx + win.window_size

Scanned == scan_done /\ Len(scan_input) >= MinBars

C28_ScanCoversEveryBar ==
    Scanned =>
        /\ \A i \in 0..(Len(scan_input) - 1) :
              \E win \in ScannedWindows(Len(scan_input)) : BarInWindow(i, win)
        /\ \E win \in ScannedWindows(Len(scan_input)) :
              win.start_idx + win.window_size = Len(scan_input)

\* C29: the MACD weak-momentum penalty is reachable: there is a histogram
\* percentile for which calculate_confidence, called for a macd_bullish or
\* macd_bearish signal, scores momentum_confirmation below 0.3 and multiplies
\* the weighted sum by 0.80; for every other input the MACD confidence is the
\* weighted sum of the four components clamped to [0, 1].
MACDSignalTypes == {"macd_bullish", "macd_bearish"}

\* every percentile percentileofscore can return, to the unit, with None and NaN
HistogramPercentiles == {NoValue, NaNValue} \cup {Value(v) : v \in 0..100}

MACDPenaltyApplies(signal_type, adx_value, macd_histogram_percentile) ==
    /\ MomentumScore(macd_histogram_percentile) < 90
    /\ SignalAdjustment(signal_type, adx_value, macd_histogram_percentile) = 8

\* the weighted sum of lines 121-130, clamped, with no adjustment
ClampedWeightedSum(adx_value, macd_histogram_percentile) ==
    FracMax0(FracMin1(Fraction((4 * TrendStrengthScore(adx_value)
                                  + 3 * MomentumScore(macd_histogram_percentile)
                                  + 2 * VolatilityScore(NoValue, "macd_bullish")
                                  + NoiseScore(NoValue)) * 10,
                               30000)))

MACDScored ==
    /\ an_input.path = "advanced_signal"
    /\ an_input.signal_type \in MACDSignalTypes
    /\ an_signals # <<>>

C29_MACDPenaltyReachable ==
    MACDScored =>
        /\ \E pct \in HistogramPercentiles :
              MACDPenaltyApplies(an_input.signal_type, an_input.adx, pct)
        /\ ~MACDPenaltyApplies(an_input.signal_type, an_input.adx, an_input.percentile) =>
              an_signals[1].confidence = ClampedWeightedSum(an_input.adx, an_input.percentile)

====
